---------------------------- MODULE Spec2Model ----------------------------
(***************************************************************************)
(* A model of craigslist_mcp: the search orchestrator (search_listings and *)
(* the search_craigslist tool in front of it), the URL builder, the        *)
(* result-set extractor and per-node field recovery.                       *)
(*                                                                         *)
(* Python strings are TLA+ strings, handled with Len, SubSeq, Head, Tail   *)
(* and \o.  An optional value (None or a value) is a sequence of length 0  *)
(* or 1, so that None never has to be compared with a value of another     *)
(* type.                                                                   *)
(***************************************************************************)
EXTENDS Integers, Sequences, FiniteSets, TLC

\* ------------------------------------------------------------------------
\* Python values
\* ------------------------------------------------------------------------

None == <<>>

Some(v) == <<v>>

IsNone(o) == o = <<>>

Val(o) == o[1]

Min(a, b) == IF a < b THEN a ELSE b

\* ------------------------------------------------------------------------
\* str methods used by the scraper
\* ------------------------------------------------------------------------

Char(s, i) == SubSeq(s, i, i)

UpperAlpha == "ABCDEFGHIJKLMNOPQRSTUVWXYZ"

LowerAlpha == "abcdefghijklmnopqrstuvwxyz"

Digits == "0123456789"

CharsOf(s) == { Char(s, i) : i \in 1..Len(s) }

LowerOf == [c \in CharsOf(UpperAlpha) |->
              Char(LowerAlpha, CHOOSE i \in 1..Len(UpperAlpha) : Char(UpperAlpha, i) = c)]

\* str.lower(), one character
LowerChar(c) == IF c \in DOMAIN LowerOf THEN LowerOf[c] ELSE c

RECURSIVE Lower(_)
\* str.lower()
Lower(s) == IF s = "" THEN "" ELSE LowerChar(Head(s)) \o Lower(Tail(s))

Whitespace == {" ", "\t", "\n", "\r"}

RECURSIVE LStripSet(_, _)
\* str.lstrip(chars)
LStripSet(s, chars) ==
  IF s /= "" /\ Head(s) \in chars THEN LStripSet(Tail(s), chars) ELSE s

RECURSIVE RStripSet(_, _)
\* str.rstrip(chars)
RStripSet(s, chars) ==
  IF s /= "" /\ Char(s, Len(s)) \in chars
    THEN RStripSet(SubSeq(s, 1, Len(s) - 1), chars)
    ELSE s

\* str.strip(chars)
StripSet(s, chars) == RStripSet(LStripSet(s, chars), chars)

\* str.strip()
Strip(s) == StripSet(s, Whitespace)

\* sub in s
Contains(sub, s) ==
  \E i \in 1..(Len(s) - Len(sub) + 1) : SubSeq(s, i, i + Len(sub) - 1) = sub

\* s.startswith(prefix)
StartsWith(s, prefix) ==
  Len(prefix) <= Len(s) /\ SubSeq(s, 1, Len(prefix)) = prefix

RECURSIVE IntToStr(_)
\* str(n) for an int, as f-strings and urlencode render it
IntToStr(n) ==
  IF n < 0 THEN "-" \o IntToStr(0 - n)
  ELSE IF n < 10 THEN Char(Digits, n + 1)
  ELSE IntToStr(n \div 10) \o Char(Digits, (n % 10) + 1)

\* ------------------------------------------------------------------------
\* Static reference tables
\* ------------------------------------------------------------------------

DEFAULT_LOCATION == "newyork"

MAX_RESULTS_CAP == 120

\* LOCATIONS: subdomain -> display name, in dict iteration (insertion) order.
\* The literal lists "columbus" and "lafayette" twice; a dict keeps the first
\* position and the last value, which is what is listed here.
LOCATIONS ==
  <<
    [code |-> "auburn", name |-> "Auburn, AL"],
    [code |-> "bham", name |-> "Birmingham, AL"],
    [code |-> "dothan", name |-> "Dothan, AL"],
    [code |-> "shoals", name |-> "Florence / Muscle Shoals, AL"],
    [code |-> "gadsden", name |-> "Gadsden-Anniston, AL"],
    [code |-> "huntsville", name |-> "Huntsville / Decatur, AL"],
    [code |-> "mobile", name |-> "Mobile, AL"],
    [code |-> "montgomery", name |-> "Montgomery, AL"],
    [code |-> "tuscaloosa", name |-> "Tuscaloosa, AL"],
    [code |-> "anchorage", name |-> "Anchorage / Mat-Su, AK"],
    [code |-> "fairbanks", name |-> "Fairbanks, AK"],
    [code |-> "kenai", name |-> "Kenai Peninsula, AK"],
    [code |-> "juneau", name |-> "Juneau, AK"],
    [code |-> "flagstaff", name |-> "Flagstaff / Sedona, AZ"],
    [code |-> "mohave", name |-> "Mohave County, AZ"],
    [code |-> "phoenix", name |-> "Phoenix, AZ"],
    [code |-> "prescott", name |-> "Prescott, AZ"],
    [code |-> "showlow", name |-> "Show Low, AZ"],
    [code |-> "sierravista", name |-> "Sierra Vista, AZ"],
    [code |-> "tucson", name |-> "Tucson, AZ"],
    [code |-> "yuma", name |-> "Yuma, AZ"],
    [code |-> "fayar", name |-> "Fayetteville, AR"],
    [code |-> "fortsmith", name |-> "Fort Smith, AR"],
    [code |-> "jonesboro", name |-> "Jonesboro, AR"],
    [code |-> "littlerock", name |-> "Little Rock, AR"],
    [code |-> "texarkana", name |-> "Texarkana, AR"],
    [code |-> "bakersfield", name |-> "Bakersfield, CA"],
    [code |-> "chico", name |-> "Chico, CA"],
    [code |-> "fresno", name |-> "Fresno / Madera, CA"],
    [code |-> "goldcountry", name |-> "Gold Country, CA"],
    [code |-> "hanford", name |-> "Hanford-Corcoran, CA"],
    [code |-> "humboldt", name |-> "Humboldt County, CA"],
    [code |-> "imperial", name |-> "Imperial County, CA"],
    [code |-> "inlandempire", name |-> "Inland Empire, CA"],
    [code |-> "losangeles", name |-> "Los Angeles, CA"],
    [code |-> "mendocino", name |-> "Mendocino County, CA"],
    [code |-> "merced", name |-> "Merced, CA"],
    [code |-> "modesto", name |-> "Modesto, CA"],
    [code |-> "monterey", name |-> "Monterey Bay, CA"],
    [code |-> "orangecounty", name |-> "Orange County, CA"],
    [code |-> "palmsprings", name |-> "Palm Springs, CA"],
    [code |-> "redding", name |-> "Redding, CA"],
    [code |-> "sacramento", name |-> "Sacramento, CA"],
    [code |-> "sandiego", name |-> "San Diego, CA"],
    [code |-> "sfbay", name |-> "San Francisco Bay Area, CA"],
    [code |-> "slo", name |-> "San Luis Obispo, CA"],
    [code |-> "santabarbara", name |-> "Santa Barbara, CA"],
    [code |-> "santamaria", name |-> "Santa Maria, CA"],
    [code |-> "siskiyou", name |-> "Siskiyou County, CA"],
    [code |-> "stockton", name |-> "Stockton, CA"],
    [code |-> "susanville", name |-> "Susanville, CA"],
    [code |-> "ventura", name |-> "Ventura County, CA"],
    [code |-> "visalia", name |-> "Visalia-Tulare, CA"],
    [code |-> "yubasutter", name |-> "Yuba-Sutter, CA"],
    [code |-> "boulder", name |-> "Boulder, CO"],
    [code |-> "cosprings", name |-> "Colorado Springs, CO"],
    [code |-> "denver", name |-> "Denver, CO"],
    [code |-> "eastco", name |-> "Eastern CO"],
    [code |-> "fortcollins", name |-> "Fort Collins / North CO"],
    [code |-> "pueblo", name |-> "Pueblo, CO"],
    [code |-> "rockies", name |-> "High Rockies, CO"],
    [code |-> "westslope", name |-> "Western Slope, CO"],
    [code |-> "newhaven", name |-> "New Haven, CT"],
    [code |-> "hartford", name |-> "Hartford, CT"],
    [code |-> "nwct", name |-> "Northwest CT"],
    [code |-> "eastern-ct", name |-> "Eastern CT"],
    [code |-> "delaware", name |-> "Delaware"],
    [code |-> "washingtondc", name |-> "Washington, DC"],
    [code |-> "daytona", name |-> "Daytona Beach, FL"],
    [code |-> "keys", name |-> "Florida Keys, FL"],
    [code |-> "fortlauderdale", name |-> "Fort Lauderdale, FL"],
    [code |-> "fortmyers", name |-> "Fort Myers / SW Florida, FL"],
    [code |-> "gainesville", name |-> "Gainesville, FL"],
    [code |-> "cfl", name |-> "Heartland Florida, FL"],
    [code |-> "jacksonville", name |-> "Jacksonville, FL"],
    [code |-> "lakeland", name |-> "Lakeland, FL"],
    [code |-> "lakecity", name |-> "Lake City, FL"],
    [code |-> "ocala", name |-> "Ocala, FL"],
    [code |-> "okaloosa", name |-> "Okaloosa / Walton, FL"],
    [code |-> "orlando", name |-> "Orlando, FL"],
    [code |-> "panama", name |-> "Panama City, FL"],
    [code |-> "pensacola", name |-> "Pensacola, FL"],
    [code |-> "sarasota", name |-> "Sarasota-Bradenton, FL"],
    [code |-> "miami", name |-> "South Florida / Miami, FL"],
    [code |-> "spacecoast", name |-> "Space Coast, FL"],
    [code |-> "staugustine", name |-> "St Augustine, FL"],
    [code |-> "tallahassee", name |-> "Tallahassee, FL"],
    [code |-> "tampa", name |-> "Tampa Bay Area, FL"],
    [code |-> "treasure", name |-> "Treasure Coast, FL"],
    [code |-> "albanyga", name |-> "Albany, GA"],
    [code |-> "athens", name |-> "Athens, GA"],
    [code |-> "atlanta", name |-> "Atlanta, GA"],
    [code |-> "augusta", name |-> "Augusta, GA"],
    [code |-> "brunswick", name |-> "Brunswick, GA"],
    [code |-> "columbus", name |-> "Columbus, OH"],
    [code |-> "macon", name |-> "Macon / Warner Robins, GA"],
    [code |-> "nwga", name |-> "Northwest GA"],
    [code |-> "savannah", name |-> "Savannah / Hinesville, GA"],
    [code |-> "statesboro", name |-> "Statesboro, GA"],
    [code |-> "valdosta", name |-> "Valdosta, GA"],
    [code |-> "honolulu", name |-> "Hawaii"],
    [code |-> "boise", name |-> "Boise, ID"],
    [code |-> "easternidaho", name |-> "East Idaho, ID"],
    [code |-> "lewiston", name |-> "Lewiston / Clarkston, ID"],
    [code |-> "twinfalls", name |-> "Twin Falls, ID"],
    [code |-> "bn", name |-> "Bloomington-Normal, IL"],
    [code |-> "chambana", name |-> "Champaign Urbana, IL"],
    [code |-> "chicago", name |-> "Chicago, IL"],
    [code |-> "decatur", name |-> "Decatur, IL"],
    [code |-> "lasalle", name |-> "La Salle Co, IL"],
    [code |-> "mattoon", name |-> "Mattoon-Charleston, IL"],
    [code |-> "peoria", name |-> "Peoria, IL"],
    [code |-> "rockford", name |-> "Rockford, IL"],
    [code |-> "carbondale", name |-> "Southern Illinois, IL"],
    [code |-> "springfieldil", name |-> "Springfield, IL"],
    [code |-> "quincy", name |-> "Western IL"],
    [code |-> "bloomington", name |-> "Bloomington, IN"],
    [code |-> "evansville", name |-> "Evansville, IN"],
    [code |-> "fortwayne", name |-> "Fort Wayne, IN"],
    [code |-> "indianapolis", name |-> "Indianapolis, IN"],
    [code |-> "kokomo", name |-> "Kokomo, IN"],
    [code |-> "lafayette", name |-> "Lafayette, LA"],
    [code |-> "muncie", name |-> "Muncie / Anderson, IN"],
    [code |-> "richmondin", name |-> "Richmond, IN"],
    [code |-> "southbend", name |-> "South Bend / Michiana, IN"],
    [code |-> "terrehaute", name |-> "Terre Haute, IN"],
    [code |-> "ames", name |-> "Ames, IA"],
    [code |-> "cedarrapids", name |-> "Cedar Rapids, IA"],
    [code |-> "desmoines", name |-> "Des Moines, IA"],
    [code |-> "dubuque", name |-> "Dubuque, IA"],
    [code |-> "fortdodge", name |-> "Fort Dodge, IA"],
    [code |-> "iowacity", name |-> "Iowa City, IA"],
    [code |-> "masoncity", name |-> "Mason City, IA"],
    [code |-> "quadcities", name |-> "Quad Cities, IA/IL"],
    [code |-> "siouxcity", name |-> "Sioux City, IA"],
    [code |-> "ottumwa", name |-> "Southeast IA"],
    [code |-> "waterloo", name |-> "Waterloo / Cedar Falls, IA"],
    [code |-> "lawrence", name |-> "Lawrence, KS"],
    [code |-> "ksu", name |-> "Manhattan, KS"],
    [code |-> "nwks", name |-> "Northwest KS"],
    [code |-> "salina", name |-> "Salina, KS"],
    [code |-> "seks", name |-> "Southeast KS"],
    [code |-> "swks", name |-> "Southwest KS"],
    [code |-> "topeka", name |-> "Topeka, KS"],
    [code |-> "wichita", name |-> "Wichita, KS"],
    [code |-> "bgky", name |-> "Bowling Green, KY"],
    [code |-> "eastky", name |-> "Eastern Kentucky"],
    [code |-> "lexington", name |-> "Lexington, KY"],
    [code |-> "louisville", name |-> "Louisville, KY"],
    [code |-> "owensboro", name |-> "Owensboro, KY"],
    [code |-> "westky", name |-> "Western KY"],
    [code |-> "batonrouge", name |-> "Baton Rouge, LA"],
    [code |-> "cenla", name |-> "Central Louisiana, LA"],
    [code |-> "houma", name |-> "Houma, LA"],
    [code |-> "lakecharles", name |-> "Lake Charles, LA"],
    [code |-> "monroe", name |-> "Monroe, LA"],
    [code |-> "neworleans", name |-> "New Orleans, LA"],
    [code |-> "shreveport", name |-> "Shreveport, LA"],
    [code |-> "maine", name |-> "Maine"],
    [code |-> "annapolis", name |-> "Annapolis, MD"],
    [code |-> "baltimore", name |-> "Baltimore, MD"],
    [code |-> "easternshore", name |-> "Eastern Shore, MD"],
    [code |-> "frederick", name |-> "Frederick, MD"],
    [code |-> "smd", name |-> "Southern Maryland"],
    [code |-> "westmd", name |-> "Western Maryland"],
    [code |-> "boston", name |-> "Boston, MA"],
    [code |-> "capecod", name |-> "Cape Cod / Islands, MA"],
    [code |-> "southcoast", name |-> "South Coast, MA"],
    [code |-> "westernmass", name |-> "Western Massachusetts"],
    [code |-> "worcester", name |-> "Worcester / Central MA"],
    [code |-> "annarbor", name |-> "Ann Arbor, MI"],
    [code |-> "battlecreek", name |-> "Battle Creek, MI"],
    [code |-> "centralmich", name |-> "Central Michigan"],
    [code |-> "detroit", name |-> "Detroit Metro, MI"],
    [code |-> "flint", name |-> "Flint, MI"],
    [code |-> "grandrapids", name |-> "Grand Rapids, MI"],
    [code |-> "holland", name |-> "Holland, MI"],
    [code |-> "jxn", name |-> "Jackson, MI"],
    [code |-> "kalamazoo", name |-> "Kalamazoo, MI"],
    [code |-> "lansing", name |-> "Lansing, MI"],
    [code |-> "monroemi", name |-> "Monroe, MI"],
    [code |-> "muskegon", name |-> "Muskegon, MI"],
    [code |-> "nmi", name |-> "Northern Michigan"],
    [code |-> "porthuron", name |-> "Port Huron, MI"],
    [code |-> "saginaw", name |-> "Saginaw-Midland-Bay City, MI"],
    [code |-> "swmi", name |-> "Southwest Michigan"],
    [code |-> "thumb", name |-> "The Thumb, MI"],
    [code |-> "up", name |-> "Upper Peninsula, MI"],
    [code |-> "bemidji", name |-> "Bemidji, MN"],
    [code |-> "brainerd", name |-> "Brainerd, MN"],
    [code |-> "duluth", name |-> "Duluth / Superior, MN"],
    [code |-> "mankato", name |-> "Mankato, MN"],
    [code |-> "minneapolis", name |-> "Minneapolis / St Paul, MN"],
    [code |-> "rmn", name |-> "Rochester, MN"],
    [code |-> "marshall", name |-> "Southwest MN"],
    [code |-> "stcloud", name |-> "St Cloud, MN"],
    [code |-> "gulfport", name |-> "Gulfport / Biloxi, MS"],
    [code |-> "hattiesburg", name |-> "Hattiesburg, MS"],
    [code |-> "jackson", name |-> "Jackson, MS"],
    [code |-> "meridian", name |-> "Meridian, MS"],
    [code |-> "northmiss", name |-> "North Mississippi"],
    [code |-> "natchez", name |-> "Southwest MS"],
    [code |-> "columbiamo", name |-> "Columbia / Jeff City, MO"],
    [code |-> "joplin", name |-> "Joplin, MO"],
    [code |-> "kansascity", name |-> "Kansas City, MO"],
    [code |-> "kirksville", name |-> "Kirksville, MO"],
    [code |-> "loz", name |-> "Lake of the Ozarks, MO"],
    [code |-> "semo", name |-> "Southeast Missouri"],
    [code |-> "springfield", name |-> "Springfield, MO"],
    [code |-> "stjoseph", name |-> "St Joseph, MO"],
    [code |-> "stlouis", name |-> "St Louis, MO"],
    [code |-> "billings", name |-> "Billings, MT"],
    [code |-> "bozeman", name |-> "Bozeman, MT"],
    [code |-> "butte", name |-> "Butte, MT"],
    [code |-> "greatfalls", name |-> "Great Falls, MT"],
    [code |-> "helena", name |-> "Helena, MT"],
    [code |-> "kalispell", name |-> "Kalispell, MT"],
    [code |-> "missoula", name |-> "Missoula, MT"],
    [code |-> "montana", name |-> "Eastern Montana"],
    [code |-> "grandisland", name |-> "Grand Island, NE"],
    [code |-> "lincoln", name |-> "Lincoln, NE"],
    [code |-> "northplatte", name |-> "North Platte, NE"],
    [code |-> "omaha", name |-> "Omaha / Council Bluffs, NE"],
    [code |-> "scottsbluff", name |-> "Scottsbluff / Panhandle, NE"],
    [code |-> "elko", name |-> "Elko, NV"],
    [code |-> "lasvegas", name |-> "Las Vegas, NV"],
    [code |-> "reno", name |-> "Reno / Tahoe, NV"],
    [code |-> "nh", name |-> "New Hampshire"],
    [code |-> "cnj", name |-> "Central NJ"],
    [code |-> "jerseyshore", name |-> "Jersey Shore, NJ"],
    [code |-> "newjersey", name |-> "North Jersey, NJ"],
    [code |-> "southjersey", name |-> "South Jersey, NJ"],
    [code |-> "albuquerque", name |-> "Albuquerque, NM"],
    [code |-> "clovis", name |-> "Clovis / Portales, NM"],
    [code |-> "farmington", name |-> "Farmington, NM"],
    [code |-> "lascruces", name |-> "Las Cruces, NM"],
    [code |-> "roswell", name |-> "Roswell / Carlsbad, NM"],
    [code |-> "santafe", name |-> "Santa Fe / Taos, NM"],
    [code |-> "albany", name |-> "Albany, NY"],
    [code |-> "binghamton", name |-> "Binghamton, NY"],
    [code |-> "buffalo", name |-> "Buffalo, NY"],
    [code |-> "catskills", name |-> "Catskills, NY"],
    [code |-> "chautauqua", name |-> "Chautauqua, NY"],
    [code |-> "elmira", name |-> "Elmira-Corning, NY"],
    [code |-> "fingerlakes", name |-> "Finger Lakes, NY"],
    [code |-> "glensfalls", name |-> "Glens Falls, NY"],
    [code |-> "hudsonvalley", name |-> "Hudson Valley, NY"],
    [code |-> "ithaca", name |-> "Ithaca, NY"],
    [code |-> "longisland", name |-> "Long Island, NY"],
    [code |-> "newyork", name |-> "New York City, NY"],
    [code |-> "oneonta", name |-> "Oneonta, NY"],
    [code |-> "plattsburgh", name |-> "Plattsburgh-Adirondacks, NY"],
    [code |-> "potsdam", name |-> "Potsdam-Canton-Massena, NY"],
    [code |-> "rochester", name |-> "Rochester, NY"],
    [code |-> "syracuse", name |-> "Syracuse, NY"],
    [code |-> "utica", name |-> "Utica-Rome-Oneida, NY"],
    [code |-> "watertown", name |-> "Watertown, NY"],
    [code |-> "asheville", name |-> "Asheville, NC"],
    [code |-> "boone", name |-> "Boone, NC"],
    [code |-> "charlotte", name |-> "Charlotte, NC"],
    [code |-> "eastnc", name |-> "Eastern NC"],
    [code |-> "fayetteville", name |-> "Fayetteville, NC"],
    [code |-> "greensboro", name |-> "Greensboro, NC"],
    [code |-> "hickory", name |-> "Hickory / Lenoir, NC"],
    [code |-> "onslow", name |-> "Jacksonville, NC"],
    [code |-> "outerbanks", name |-> "Outer Banks, NC"],
    [code |-> "raleigh", name |-> "Raleigh / Durham / CH, NC"],
    [code |-> "wilmington", name |-> "Wilmington, NC"],
    [code |-> "winstonsalem", name |-> "Winston-Salem, NC"],
    [code |-> "bismarck", name |-> "Bismarck, ND"],
    [code |-> "fargo", name |-> "Fargo / Moorhead, ND"],
    [code |-> "grandforks", name |-> "Grand Forks, ND"],
    [code |-> "nd", name |-> "North Dakota"],
    [code |-> "akroncanton", name |-> "Akron / Canton, OH"],
    [code |-> "ashtabula", name |-> "Ashtabula, OH"],
    [code |-> "athensohio", name |-> "Athens, OH"],
    [code |-> "chillicothe", name |-> "Chillicothe, OH"],
    [code |-> "cincinnati", name |-> "Cincinnati, OH"],
    [code |-> "cleveland", name |-> "Cleveland, OH"],
    [code |-> "dayton", name |-> "Dayton / Springfield, OH"],
    [code |-> "limaohio", name |-> "Lima / Findlay, OH"],
    [code |-> "mansfield", name |-> "Mansfield, OH"],
    [code |-> "sandusky", name |-> "Sandusky, OH"],
    [code |-> "toledo", name |-> "Toledo, OH"],
    [code |-> "tuscarawas", name |-> "Tuscarawas Co, OH"],
    [code |-> "youngstown", name |-> "Youngstown, OH"],
    [code |-> "zanesville", name |-> "Zanesville / Cambridge, OH"],
    [code |-> "lawton", name |-> "Lawton, OK"],
    [code |-> "enid", name |-> "Northwest OK"],
    [code |-> "oklahomacity", name |-> "Oklahoma City, OK"],
    [code |-> "stillwater", name |-> "Stillwater, OK"],
    [code |-> "tulsa", name |-> "Tulsa, OK"],
    [code |-> "bend", name |-> "Bend, OR"],
    [code |-> "corvallis", name |-> "Corvallis/Albany, OR"],
    [code |-> "eastoregon", name |-> "East Oregon, OR"],
    [code |-> "eugene", name |-> "Eugene, OR"],
    [code |-> "klamath", name |-> "Klamath Falls, OR"],
    [code |-> "medford", name |-> "Medford-Ashland, OR"],
    [code |-> "oregoncoast", name |-> "Oregon Coast, OR"],
    [code |-> "portland", name |-> "Portland, OR"],
    [code |-> "roseburg", name |-> "Roseburg, OR"],
    [code |-> "salem", name |-> "Salem, OR"],
    [code |-> "allentown", name |-> "Allentown, PA"],
    [code |-> "altoona", name |-> "Altoona-Johnstown, PA"],
    [code |-> "chambersburg", name |-> "Cumberland Valley, PA"],
    [code |-> "erie", name |-> "Erie, PA"],
    [code |-> "harrisburg", name |-> "Harrisburg, PA"],
    [code |-> "lancaster", name |-> "Lancaster, PA"],
    [code |-> "meadville", name |-> "Meadville, PA"],
    [code |-> "philadelphia", name |-> "Philadelphia, PA"],
    [code |-> "pittsburgh", name |-> "Pittsburgh, PA"],
    [code |-> "poconos", name |-> "Poconos, PA"],
    [code |-> "reading", name |-> "Reading, PA"],
    [code |-> "scranton", name |-> "Scranton / Wilkes-Barre, PA"],
    [code |-> "pennstate", name |-> "State College, PA"],
    [code |-> "williamsport", name |-> "Williamsport, PA"],
    [code |-> "york", name |-> "York, PA"],
    [code |-> "providence", name |-> "Providence / Warwick, RI"],
    [code |-> "charleston", name |-> "Charleston, SC"],
    [code |-> "columbia", name |-> "Columbia, SC"],
    [code |-> "florencesc", name |-> "Florence, SC"],
    [code |-> "greenville", name |-> "Greenville / Upstate, SC"],
    [code |-> "hiltonhead", name |-> "Hilton Head, SC"],
    [code |-> "myrtlebeach", name |-> "Myrtle Beach, SC"],
    [code |-> "nesd", name |-> "Northeast SD"],
    [code |-> "pierresd", name |-> "Pierre / Central SD"],
    [code |-> "rapidcity", name |-> "Rapid City / West SD"],
    [code |-> "siouxfalls", name |-> "Sioux Falls / SE SD"],
    [code |-> "sd", name |-> "South Dakota"],
    [code |-> "chattanooga", name |-> "Chattanooga, TN"],
    [code |-> "clarksville", name |-> "Clarksville, TN"],
    [code |-> "cookeville", name |-> "Cookeville, TN"],
    [code |-> "jacksontn", name |-> "Jackson, TN"],
    [code |-> "knoxville", name |-> "Knoxville, TN"],
    [code |-> "memphis", name |-> "Memphis, TN"],
    [code |-> "nashville", name |-> "Nashville, TN"],
    [code |-> "tricities", name |-> "Tri-Cities, TN"],
    [code |-> "abilene", name |-> "Abilene, TX"],
    [code |-> "amarillo", name |-> "Amarillo, TX"],
    [code |-> "austin", name |-> "Austin, TX"],
    [code |-> "beaumont", name |-> "Beaumont / Port Arthur, TX"],
    [code |-> "brownsville", name |-> "Brownsville, TX"],
    [code |-> "collegestation", name |-> "College Station, TX"],
    [code |-> "corpuschristi", name |-> "Corpus Christi, TX"],
    [code |-> "dallas", name |-> "Dallas / Fort Worth, TX"],
    [code |-> "nacogdoches", name |-> "Deep East Texas, TX"],
    [code |-> "delrio", name |-> "Del Rio / Eagle Pass, TX"],
    [code |-> "elpaso", name |-> "El Paso, TX"],
    [code |-> "galveston", name |-> "Galveston, TX"],
    [code |-> "houston", name |-> "Houston, TX"],
    [code |-> "killeen", name |-> "Killeen / Temple / Ft Hood, TX"],
    [code |-> "laredo", name |-> "Laredo, TX"],
    [code |-> "lubbock", name |-> "Lubbock, TX"],
    [code |-> "mcallen", name |-> "McAllen / Edinburg, TX"],
    [code |-> "midland", name |-> "Midland / Odessa, TX"],
    [code |-> "sanangelo", name |-> "San Angelo, TX"],
    [code |-> "sanantonio", name |-> "San Antonio, TX"],
    [code |-> "sanmarcos", name |-> "San Marcos, TX"],
    [code |-> "bigbend", name |-> "Southwest TX"],
    [code |-> "texoma", name |-> "Texoma, TX"],
    [code |-> "easttexas", name |-> "Tyler / East TX"],
    [code |-> "victoriatx", name |-> "Victoria, TX"],
    [code |-> "waco", name |-> "Waco, TX"],
    [code |-> "wichitafalls", name |-> "Wichita Falls, TX"],
    [code |-> "logan", name |-> "Logan, UT"],
    [code |-> "ogden", name |-> "Ogden-Clearfield, UT"],
    [code |-> "provo", name |-> "Provo / Orem, UT"],
    [code |-> "saltlakecity", name |-> "Salt Lake City, UT"],
    [code |-> "stgeorge", name |-> "St George, UT"],
    [code |-> "burlington", name |-> "Burlington, VT"],
    [code |-> "charlottesville", name |-> "Charlottesville, VA"],
    [code |-> "danville", name |-> "Danville, VA"],
    [code |-> "fredericksburg", name |-> "Fredericksburg, VA"],
    [code |-> "harrisonburg", name |-> "Harrisonburg, VA"],
    [code |-> "lynchburg", name |-> "Lynchburg, VA"],
    [code |-> "blacksburg", name |-> "New River Valley, VA"],
    [code |-> "norfolk", name |-> "Norfolk / Hampton Roads, VA"],
    [code |-> "richmond", name |-> "Richmond, VA"],
    [code |-> "roanoke", name |-> "Roanoke, VA"],
    [code |-> "swva", name |-> "Southwest VA"],
    [code |-> "winchester", name |-> "Winchester, VA"],
    [code |-> "bellingham", name |-> "Bellingham, WA"],
    [code |-> "kpr", name |-> "Kennewick-Pasco-Richland, WA"],
    [code |-> "moseslake", name |-> "Moses Lake, WA"],
    [code |-> "olympic", name |-> "Olympic Peninsula, WA"],
    [code |-> "pullman", name |-> "Pullman / Moscow, WA"],
    [code |-> "seattle", name |-> "Seattle-Tacoma, WA"],
    [code |-> "skagit", name |-> "Skagit / Island / SJI, WA"],
    [code |-> "spokane", name |-> "Spokane / Coeur d'Alene, WA"],
    [code |-> "wenatchee", name |-> "Wenatchee, WA"],
    [code |-> "yakima", name |-> "Yakima, WA"],
    [code |-> "charlestonwv", name |-> "Charleston, WV"],
    [code |-> "martinsburg", name |-> "Eastern Panhandle, WV"],
    [code |-> "huntington", name |-> "Huntington-Ashland, WV"],
    [code |-> "morgantown", name |-> "Morgantown, WV"],
    [code |-> "ohiovalley", name |-> "Northern Panhandle, WV"],
    [code |-> "parkersburg", name |-> "Parkersburg-Marietta, WV"],
    [code |-> "swv", name |-> "Southern WV"],
    [code |-> "wv", name |-> "West Virginia (old)"],
    [code |-> "wheeling", name |-> "Wheeling, WV"],
    [code |-> "appleton", name |-> "Appleton-Oshkosh-FDL, WI"],
    [code |-> "eauclaire", name |-> "Eau Claire, WI"],
    [code |-> "greenbay", name |-> "Green Bay, WI"],
    [code |-> "janesville", name |-> "Janesville, WI"],
    [code |-> "racine", name |-> "Kenosha-Racine, WI"],
    [code |-> "lacrosse", name |-> "La Crosse, WI"],
    [code |-> "madison", name |-> "Madison, WI"],
    [code |-> "milwaukee", name |-> "Milwaukee, WI"],
    [code |-> "northernwi", name |-> "Northern WI"],
    [code |-> "sheboygan", name |-> "Sheboygan, WI"],
    [code |-> "wausau", name |-> "Wausau, WI"],
    [code |-> "wyoming", name |-> "Wyoming"],
    [code |-> "barrie", name |-> "Barrie, ON"],
    [code |-> "calgary", name |-> "Calgary, AB"],
    [code |-> "comoxvalley", name |-> "Comox Valley, BC"],
    [code |-> "edmonton", name |-> "Edmonton, AB"],
    [code |-> "ftmcmurray", name |-> "Fort McMurray, AB"],
    [code |-> "halifax", name |-> "Halifax, NS"],
    [code |-> "hamilton", name |-> "Hamilton-Burlington, ON"],
    [code |-> "kamloops", name |-> "Kamloops, BC"],
    [code |-> "kelowna", name |-> "Kelowna / Okanagan, BC"],
    [code |-> "kingston", name |-> "Kingston, ON"],
    [code |-> "kitchener", name |-> "Kitchener-Waterloo-Cambridge, ON"],
    [code |-> "lethbridge", name |-> "Lethbridge, AB"],
    [code |-> "london", name |-> "London, ON"],
    [code |-> "montreal", name |-> "Montreal, QC"],
    [code |-> "ottawa", name |-> "Ottawa-Hull-Gatineau, ON"],
    [code |-> "pei", name |-> "PEI"],
    [code |-> "quebec", name |-> "Quebec City, QC"],
    [code |-> "regina", name |-> "Regina, SK"],
    [code |-> "saskatoon", name |-> "Saskatoon, SK"],
    [code |-> "soo", name |-> "Sault Ste Marie, ON"],
    [code |-> "stcatharines", name |-> "St Catharines, ON"],
    [code |-> "sudbury", name |-> "Sudbury, ON"],
    [code |-> "thunderbay", name |-> "Thunder Bay, ON"],
    [code |-> "toronto", name |-> "Toronto, ON"],
    [code |-> "vancouver", name |-> "Vancouver, BC"],
    [code |-> "victoria", name |-> "Victoria, BC"],
    [code |-> "whistler", name |-> "Whistler, BC"],
    [code |-> "windsor", name |-> "Windsor, ON"],
    [code |-> "winnipeg", name |-> "Winnipeg, MB"]
  >>

\* CATEGORIES: search category code -> display name, in declaration order.
CATEGORIES ==
  <<
    [code |-> "sss", name |-> "All For Sale"],
    [code |-> "ata", name |-> "Antiques"],
    [code |-> "ppa", name |-> "Appliances"],
    [code |-> "ara", name |-> "Arts & Crafts"],
    [code |-> "sna", name |-> "ATV/UTV/Snowmobile"],
    [code |-> "pta", name |-> "Auto Parts"],
    [code |-> "baa", name |-> "Baby & Kid Stuff"],
    [code |-> "bar", name |-> "Barter"],
    [code |-> "haa", name |-> "Health & Beauty"],
    [code |-> "bip", name |-> "Bicycle Parts"],
    [code |-> "bia", name |-> "Bicycles"],
    [code |-> "boa", name |-> "Boats"],
    [code |-> "bka", name |-> "Books"],
    [code |-> "bfa", name |-> "Business/Commercial"],
    [code |-> "cta", name |-> "Cars & Trucks"],
    [code |-> "ema", name |-> "CDs/DVDs/VHS"],
    [code |-> "moa", name |-> "Cell Phones"],
    [code |-> "cla", name |-> "Clothing & Accessories"],
    [code |-> "cba", name |-> "Collectibles"],
    [code |-> "syp", name |-> "Computer Parts"],
    [code |-> "sya", name |-> "Computers"],
    [code |-> "ela", name |-> "Electronics"],
    [code |-> "gra", name |-> "Farm & Garden"],
    [code |-> "zip", name |-> "Free Stuff"],
    [code |-> "fua", name |-> "Furniture"],
    [code |-> "gms", name |-> "Garage & Moving Sales"],
    [code |-> "foa", name |-> "General For Sale"],
    [code |-> "hva", name |-> "Heavy Equipment"],
    [code |-> "hsa", name |-> "Household Items"],
    [code |-> "jwa", name |-> "Jewelry"],
    [code |-> "maa", name |-> "Materials"],
    [code |-> "mca", name |-> "Motorcycles/Scooters"],
    [code |-> "msa", name |-> "Musical Instruments"],
    [code |-> "pha", name |-> "Photo/Video"],
    [code |-> "rva", name |-> "Recreational Vehicles"],
    [code |-> "sga", name |-> "Sporting Goods"],
    [code |-> "tia", name |-> "Tickets"],
    [code |-> "tla", name |-> "Tools"],
    [code |-> "taa", name |-> "Toys & Games"],
    [code |-> "tra", name |-> "Trailers"],
    [code |-> "vga", name |-> "Video Gaming"],
    [code |-> "waa", name |-> "Wanted"],
    [code |-> "hhh", name |-> "All Housing"],
    [code |-> "apa", name |-> "Apartments / Housing For Rent"],
    [code |-> "swp", name |-> "Housing Swap"],
    [code |-> "hsw", name |-> "Housing Wanted"],
    [code |-> "off", name |-> "Office & Commercial"],
    [code |-> "prk", name |-> "Parking & Storage"],
    [code |-> "rea", name |-> "Real Estate For Sale"],
    [code |-> "roo", name |-> "Rooms & Shares"],
    [code |-> "sha", name |-> "Rooms Wanted"],
    [code |-> "sbw", name |-> "Sublets & Temporary"],
    [code |-> "vac", name |-> "Vacation Rentals"],
    [code |-> "jjj", name |-> "All Jobs"],
    [code |-> "bbb", name |-> "All Services"],
    [code |-> "ggg", name |-> "All Gigs"],
    [code |-> "ccc", name |-> "All Community"]
  >>

\* SORT_OPTIONS: sort key -> label.
SORT_OPTIONS ==
  <<
    [code |-> "relevant", name |-> "Most Relevant"],
    [code |-> "date", name |-> "Newest"],
    [code |-> "priceasc", name |-> "Price Low to High"],
    [code |-> "pricedsc", name |-> "Price High to Low"]
  >>
\* k in TABLE
HasKey(table, k) == \E i \in 1..Len(table) : table[i].code = k

\* TABLE.get(k, k)
Lookup(table, k) ==
  IF HasKey(table, k)
    THEN table[CHOOSE i \in 1..Len(table) : table[i].code = k].name
    ELSE k

\* ------------------------------------------------------------------------
\* URL Builder: _build_search_url
\* ------------------------------------------------------------------------

\* Printable ASCII: AsciiLow[i] is the character of code 31 + i (32..95) and
\* AsciiHigh[i] the character of code 96 + i (97..126).
AsciiLow ==
  " !\"#$%&'()*+,-./0123456789:;<=>?@ABCDEFGHIJKLMNOPQRSTUVWXYZ[\\]^_"

AsciiHigh == "abcdefghijklmnopqrstuvwxyz{|}~"

HexDigits == "0123456789ABCDEF"

\* ord(c)
Ord(c) ==
  IF c \in CharsOf(AsciiLow)
    THEN 31 + (CHOOSE i \in 1..Len(AsciiLow) : Char(AsciiLow, i) = c)
    ELSE 96 + (CHOOSE i \in 1..Len(AsciiHigh) : Char(AsciiHigh, i) = c)

\* The characters urllib's quote_plus never escapes.
QuoteSafe == CharsOf(UpperAlpha) \cup CharsOf(LowerAlpha) \cup CharsOf(Digits)
               \cup {"_", ".", "-", "~"}

\* urllib.parse.quote_plus, one character
QuoteChar(c) ==
  IF c \in QuoteSafe THEN c
  ELSE IF c = " " THEN "+"
  ELSE "%" \o Char(HexDigits, (Ord(c) \div 16) + 1) \o Char(HexDigits, (Ord(c) % 16) + 1)

RECURSIVE QuotePlus(_)
\* urllib.parse.quote_plus
QuotePlus(s) == IF s = "" THEN "" ELSE QuoteChar(Head(s)) \o QuotePlus(Tail(s))

RECURSIVE UrlEncode(_)
\* urllib.parse.urlencode over the dict's items, in insertion order
UrlEncode(params) ==
  IF params = <<>> THEN ""
  ELSE QuotePlus(params[1][1]) \o "=" \o QuotePlus(params[1][2])
         \o (IF Len(params) > 1 THEN "&" \o UrlEncode(Tail(params)) ELSE "")

\* Truthiness of an optional str: neither None nor "".
Truthy(o) == ~IsNone(o) /\ Val(o) /= ""

\* SearchParams with the prices tested for truth instead of against None.
SearchParamsTruthyPrices(a) ==
     (IF Truthy(a.query) THEN << <<"query", Val(a.query)>> >> ELSE <<>>)
  \o (IF ~IsNone(a.min_price) /\ Val(a.min_price) /= 0
        THEN << <<"min_price", IntToStr(Val(a.min_price))>> >> ELSE <<>>)
  \o (IF ~IsNone(a.max_price) /\ Val(a.max_price) /= 0
        THEN << <<"max_price", IntToStr(Val(a.max_price))>> >> ELSE <<>>)
  \o (IF Truthy(a.sort_by) /\ HasKey(SORT_OPTIONS, Val(a.sort_by))
        THEN << <<"sort", Val(a.sort_by)>> >> ELSE <<>>)
  \o (IF a.has_image THEN << <<"hasPic", IntToStr(1)>> >> ELSE <<>>)
  \o (IF a.posted_today THEN << <<"postedToday", IntToStr(1)>> >> ELSE <<>>)
  \o (IF a.bundle_duplicates THEN << <<"bundleDuplicates", IntToStr(1)>> >> ELSE <<>>)
  \o (IF ~IsNone(a.search_distance)
        THEN << <<"search_distance", IntToStr(Val(a.search_distance))>> >> ELSE <<>>)
  \o (IF Truthy(a.postal_code) THEN << <<"postal", Val(a.postal_code)>> >> ELSE <<>>)
  \o (IF a.offset > 0 THEN << <<"s", IntToStr(a.offset)>> >> ELSE <<>>)

\* _build_search_url appending sort_by whenever it is given.
SearchParamsAnySort(a) ==
     (IF Truthy(a.query) THEN << <<"query", Val(a.query)>> >> ELSE <<>>)
  \o (IF ~IsNone(a.min_price) THEN << <<"min_price", IntToStr(Val(a.min_price))>> >> ELSE <<>>)
  \o (IF ~IsNone(a.max_price) THEN << <<"max_price", IntToStr(Val(a.max_price))>> >> ELSE <<>>)
  \o (IF Truthy(a.sort_by) THEN << <<"sort", Val(a.sort_by)>> >> ELSE <<>>)
  \o (IF a.has_image THEN << <<"hasPic", IntToStr(1)>> >> ELSE <<>>)
  \o (IF a.posted_today THEN << <<"postedToday", IntToStr(1)>> >> ELSE <<>>)
  \o (IF a.bundle_duplicates THEN << <<"bundleDuplicates", IntToStr(1)>> >> ELSE <<>>)
  \o (IF ~IsNone(a.search_distance)
        THEN << <<"search_distance", IntToStr(Val(a.search_distance))>> >> ELSE <<>>)
  \o (IF Truthy(a.postal_code) THEN << <<"postal", Val(a.postal_code)>> >> ELSE <<>>)
  \o (IF a.offset > 0 THEN << <<"s", IntToStr(a.offset)>> >> ELSE <<>>)

\* The params dict of _build_search_url as its items in insertion order; the
\* str() that urlencode applies to each value is applied on insertion.
SearchParams(a) ==
     (IF Truthy(a.query) THEN << <<"query", Val(a.query)>> >> ELSE <<>>)
  \o (IF ~IsNone(a.min_price) THEN << <<"min_price", IntToStr(Val(a.min_price))>> >> ELSE <<>>)
  \o (IF ~IsNone(a.max_price) THEN << <<"max_price", IntToStr(Val(a.max_price))>> >> ELSE <<>>)
  \o (IF Truthy(a.sort_by) /\ HasKey(SORT_OPTIONS, Val(a.sort_by))
        THEN << <<"sort", Val(a.sort_by)>> >> ELSE <<>>)
  \o (IF a.has_image THEN << <<"hasPic", IntToStr(1)>> >> ELSE <<>>)
  \o (IF a.posted_today THEN << <<"postedToday", IntToStr(1)>> >> ELSE <<>>)
  \o (IF a.bundle_duplicates THEN << <<"bundleDuplicates", IntToStr(1)>> >> ELSE <<>>)
  \o (IF ~IsNone(a.search_distance)
        THEN << <<"search_distance", IntToStr(Val(a.search_distance))>> >> ELSE <<>>)
  \o (IF Truthy(a.postal_code) THEN << <<"postal", Val(a.postal_code)>> >> ELSE <<>>)
  \o (IF a.offset > 0 THEN << <<"s", IntToStr(a.offset)>> >> ELSE <<>>)

\* _build_search_url(location, category, query, ..., offset), the arguments
\* gathered in the record a.
build_search_url(a) ==
  LET base   == "https://" \o a.location \o ".craigslist.org/search/" \o a.category
      params == SearchParams(a)
  IN  IF params /= <<>> THEN base \o "?" \o UrlEncode(params) ELSE base

\* ------------------------------------------------------------------------
\* Search Orchestrator: search_listings, and the search_craigslist tool
\* ------------------------------------------------------------------------

VARIABLES
  pc,            \* "idle": no call in progress; "fetching": _fetch_page(url)
                 \* has been invoked and not yet returned; "returned": the
                 \* call has returned response
  requested,     \* max_results as given to search_craigslist (None when
                 \* search_listings is called directly)
  args,          \* the arguments of the search_listings call
  loc,           \* resolved location code
  cat,           \* validated category code
  all_results,   \* the accumulator
  offset,        \* the offset counter
  url,           \* the last URL built in the loop
  page_results,  \* what _parse_search_results gave for the last page
  fetched,       \* the URLs _fetch_page was invoked with during the call
  served,        \* what each of those invocations gave: a page of n
                 \* extracted results, or the exception raised
  response       \* the dict the call returned

searchVars ==
  <<pc, requested, args, loc, cat, all_results, offset, url, page_results,
    fetched, served, response>>

\* A page of fewer results than this is taken to be the last one.
SHORT_PAGE == 20

\* No dict returned (yet).
NoResponse == [pending |-> TRUE]

\* The arguments of _build_search_url for the call's arguments a.
UrlArgs(a, l, c, off) ==
  [location |-> l, category |-> c, query |-> Some(a.query),
   min_price |-> a.min_price, max_price |-> a.max_price,
   sort_by |-> Some(a.sort_by), has_image |-> a.has_image,
   posted_today |-> a.posted_today, bundle_duplicates |-> a.bundle_duplicates,
   search_distance |-> a.search_distance, postal_code |-> a.postal_code,
   offset |-> off]

\* resolve_location with the last match taken instead of the first.
resolve_location_last(location) ==
  LET l == Strip(Lower(location)) IN
  IF HasKey(LOCATIONS, l) THEN Some(l)
  ELSE LET matches == SelectSeq(LOCATIONS,
                        LAMBDA e : Contains(l, e.code) \/ Contains(l, Lower(e.name)))
       IN  IF matches /= <<>> THEN Some(matches[Len(matches)].code) ELSE None

\* resolve_location taking an input that is empty once lower-cased and
\* trimmed for an unknown location.
resolve_location_no_blank(location) ==
  LET l == Strip(Lower(location)) IN
  IF HasKey(LOCATIONS, l) THEN Some(l)
  ELSE LET matches == SelectSeq(LOCATIONS,
                        LAMBDA e : Contains(l, e.code) \/ Contains(l, Lower(e.name)))
       IN  IF l /= "" /\ matches /= <<>> THEN Some(matches[1].code) ELSE None

\* The location lookup of search_listings: Some(code) or None.
resolve_location(location) ==
  LET l == Strip(Lower(location)) IN
  IF HasKey(LOCATIONS, l) THEN Some(l)
  ELSE LET matches == SelectSeq(LOCATIONS,
                        LAMBDA e : Contains(l, e.code) \/ Contains(l, Lower(e.name)))
       IN  IF matches /= <<>> THEN Some(matches[1].code) ELSE None

\* resolve_category with the substring fallback the location lookup has.
resolve_category_fuzzy(category) ==
  LET c == Strip(Lower(category)) IN
  IF HasKey(CATEGORIES, c) THEN Some(c)
  ELSE LET matches == SelectSeq(CATEGORIES,
                        LAMBDA e : Contains(c, e.code) \/ Contains(c, Lower(e.name)))
       IN  IF matches /= <<>> THEN Some(matches[1].code) ELSE None

\* The category lookup of search_listings: Some(code) or None.
resolve_category(category) ==
  LET c == Strip(Lower(category)) IN
  IF HasKey(CATEGORIES, c) THEN Some(c) ELSE None

\* PyPrefix without the cut.
PyPrefixWhole(s, n) == s

\* s[:n]
PyPrefix(s, n) ==
  IF n >= 0 THEN SubSeq(s, 1, Min(n, Len(s)))
  ELSE SubSeq(s, 1, Len(s) + n)

UnknownLocation(location) ==
  [error |-> "Unknown location: '" \o location
               \o "'. Use list_locations to see valid options.",
   suggestion |-> "Try a location like 'newyork', 'losangeles', 'chicago', 'seattle', etc."]

UnknownCategory(category) ==
  [error |-> "Unknown category: '" \o category
               \o "'. Use list_categories to see valid options.",
   suggestion |-> "Try 'sss' (All For Sale), 'mca' (Motorcycles), 'cta' (Cars & Trucks), etc."]

\* search_listings returning the URL of the current offset in the envelope.
EnvelopeLastUrl(a, l, c, results) ==
  [query |-> a.query,
   location |-> l,
   location_name |-> Lookup(LOCATIONS, l),
   category |-> c,
   category_name |-> Lookup(CATEGORIES, c),
   url |-> build_search_url(UrlArgs(a, l, c, Len(results))),
   result_count |-> Len(results),
   results |-> results]

\* The dict search_listings returns after the loop.
Envelope(a, l, c, results) ==
  [query |-> a.query,
   location |-> l,
   location_name |-> Lookup(LOCATIONS, l),
   category |-> c,
   category_name |-> Lookup(CATEGORIES, c),
   url |-> build_search_url(UrlArgs(a, l, c, 0)),
   result_count |-> Len(results),
   results |-> results]

\* LoopContinues with <= for <.
LoopContinuesInclusive(results, max_results) == Len(results) <= max_results

\* The loop condition of search_listings.
LoopContinues(results, max_results) == Len(results) < max_results

\* The head of the while loop with the accumulator at results and the counter
\* at off: either the next URL is built and _fetch_page invoked with it, or
\* the loop is left, the accumulator trimmed and the envelope returned.
LoopHead(a, l, c, results, off) ==
  IF LoopContinues(results, a.max_results)
    THEN LET u == build_search_url(UrlArgs(a, l, c, off)) IN
         /\ pc' = "fetching"
         /\ url' = u
         /\ fetched' = Append(fetched, u)
         /\ all_results' = results
         /\ offset' = off
         /\ response' = NoResponse
    ELSE /\ pc' = "returned"
         /\ UNCHANGED <<url, fetched>>
         /\ all_results' = PyPrefix(results, a.max_results)
         /\ offset' = off
         /\ response' = Envelope(a, l, c, PyPrefix(results, a.max_results))

\* The loop is left by break.
LoopBreak(a, l, c, results, off) ==
  /\ pc' = "returned"
  /\ UNCHANGED <<url, fetched>>
  /\ all_results' = PyPrefix(results, a.max_results)
  /\ offset' = off
  /\ response' = Envelope(a, l, c, PyPrefix(results, a.max_results))

\* search_listings with the category looked up only after the first page has
\* been requested.
search_listings_fetch_first(a) ==
  /\ pc = "idle"
  /\ args' = a
  /\ page_results' = <<>>
  /\ served' = <<>>
  /\ LET l == resolve_location(a.location)
         c == resolve_category(a.category)
     IN  IF IsNone(l)
           THEN /\ pc' = "returned"
                /\ response' = UnknownLocation(a.location)
                /\ loc' = "" /\ cat' = ""
                /\ all_results' = <<>> /\ offset' = 0 /\ url' = ""
                /\ fetched' = <<>>
         ELSE IF IsNone(c)
           THEN /\ pc' = "returned"
                /\ response' = UnknownCategory(a.category)
                /\ loc' = Val(l) /\ cat' = ""
                /\ all_results' = <<>> /\ offset' = 0
                /\ url' = build_search_url(
                             UrlArgs(a, Val(l), Strip(Lower(a.category)), 0))
                /\ fetched' = <<url'>>
         ELSE /\ loc' = Val(l)
              /\ cat' = Val(c)
              /\ LoopHead(a, Val(l), Val(c), <<>>, 0)

\* search_listings(**a) up to its first _fetch_page or its return.
search_listings(a) ==
  /\ pc = "idle"
  /\ args' = a
  /\ page_results' = <<>>
  /\ served' = <<>>
  /\ LET l == resolve_location(a.location)
         c == resolve_category(a.category)
     IN  IF IsNone(l)
           THEN /\ pc' = "returned"
                /\ response' = UnknownLocation(a.location)
                /\ loc' = "" /\ cat' = ""
                /\ all_results' = <<>> /\ offset' = 0 /\ url' = ""
                /\ fetched' = <<>>
         ELSE IF IsNone(c)
           THEN /\ pc' = "returned"
                /\ response' = UnknownCategory(a.category)
                /\ loc' = Val(l) /\ cat' = ""
                /\ all_results' = <<>> /\ offset' = 0 /\ url' = ""
                /\ fetched' = <<>>
         ELSE /\ loc' = Val(l)
              /\ cat' = Val(c)
              /\ LoopHead(a, Val(l), Val(c), <<>>, 0)

\* ToolArgs without the cap.
ToolArgsUncapped(t) == t

\* The arguments search_craigslist passes on for its own arguments t.
ToolArgs(t) ==
  [t EXCEPT !.max_results = Min(t.max_results, MAX_RESULTS_CAP)]

\* search_craigslist(**t): the MCP tool.
search_craigslist(t) ==
  /\ requested' = Some(t.max_results)
  /\ search_listings(ToolArgs(t))

\* search_listings called as the library's public function.
SearchDirect(a) ==
  /\ requested' = None
  /\ search_listings(a)

\* search_listings advancing the offset by a page of SHORT_PAGE results
\* whatever the page held.
FetchOkFixedStep(page) ==
  /\ pc = "fetching"
  /\ page_results' = page
  /\ served' = Append(served, [kind |-> "page", n |-> Len(page)])
  /\ UNCHANGED <<requested, args, loc, cat>>
  /\ IF page = <<>>
       THEN LoopBreak(args, loc, cat, all_results, offset)
     ELSE IF Len(page) < SHORT_PAGE
       THEN LoopBreak(args, loc, cat, all_results \o page, offset + SHORT_PAGE)
     ELSE LoopHead(args, loc, cat, all_results \o page, offset + SHORT_PAGE)

\* search_listings going round the loop again after a page of fewer than
\* SHORT_PAGE summaries.
FetchOkShortPageContinues(page) ==
  /\ pc = "fetching"
  /\ page_results' = page
  /\ served' = Append(served, [kind |-> "page", n |-> Len(page)])
  /\ UNCHANGED <<requested, args, loc, cat>>
  /\ IF page = <<>>
       THEN LoopBreak(args, loc, cat, all_results, offset)
     ELSE LoopHead(args, loc, cat, all_results \o page, offset + Len(page))

\* _fetch_page returns markup from which _parse_search_results extracts the
\* summaries page; the rest of the loop body, and what follows the loop.
FetchOk(page) ==
  /\ pc = "fetching"
  /\ page_results' = page
  /\ served' = Append(served, [kind |-> "page", n |-> Len(page)])
  /\ UNCHANGED <<requested, args, loc, cat>>
  /\ IF page = <<>>
       THEN LoopBreak(args, loc, cat, all_results, offset)
     ELSE IF Len(page) < SHORT_PAGE
       THEN LoopBreak(args, loc, cat, all_results \o page, offset + Len(page))
     ELSE LoopHead(args, loc, cat, all_results \o page, offset + Len(page))

\* FetchHTTPStatusError with the pages accumulated so far returned beside
\* the error.
FetchHTTPStatusErrorPartial(status) ==
  /\ pc = "fetching"
  /\ pc' = "returned"
  /\ response' = [error |-> "HTTP error " \o IntToStr(status[1]) \o ": " \o status[2],
                  url |-> url,
                  result_count |-> Len(all_results),
                  results |-> all_results]
  /\ served' = Append(served, [kind |-> "HTTPStatusError", n |-> 0])
  /\ UNCHANGED <<requested, args, loc, cat, all_results, offset, url,
                 page_results, fetched>>

\* _fetch_page raises httpx.HTTPStatusError.
FetchHTTPStatusError(status) ==
  /\ pc = "fetching"
  /\ pc' = "returned"
  /\ response' = [error |-> "HTTP error " \o IntToStr(status[1]) \o ": " \o status[2],
                  url |-> url]
  /\ served' = Append(served, [kind |-> "HTTPStatusError", n |-> 0])
  /\ UNCHANGED <<requested, args, loc, cat, all_results, offset, url,
                 page_results, fetched>>

\* _fetch_page raises httpx.RequestError.
FetchRequestError(msg) ==
  /\ pc = "fetching"
  /\ pc' = "returned"
  /\ response' = [error |-> "Request failed: " \o msg, url |-> url]
  /\ served' = Append(served, [kind |-> "RequestError", n |-> 0])
  /\ UNCHANGED <<requested, args, loc, cat, all_results, offset, url,
                 page_results, fetched>>

\* ------------------------------------------------------------------------
\* The inputs the orchestrator is exercised with
\* ------------------------------------------------------------------------

\* The longest page the Page Fetcher serves.
MaxPageLen == 21

PageLens == {0, 8} \cup ((SHORT_PAGE - 1)..MaxPageLen)

\* The summaries extracted from the k-th page fetched, n of them.
PageOf(n, k) == [i \in 1..n |-> [page |-> k, idx |-> i]]

LocationInputs ==
  {"newyork", "NYC", "san fran", " SFBay ", "", "  ", "bay", "zzz"}

CategoryInputs == {"sss", " CTA ", "cars", "ss"}

QueryInputs == {"couch"}

\* The optional filters left at their defaults, and all of them set.
FilterInputs ==
  { [min_price |-> None, max_price |-> None, sort_by |-> "relevant",
     has_image |-> FALSE, posted_today |-> FALSE, search_distance |-> None,
     postal_code |-> None],
    [min_price |-> Some(50), max_price |-> Some(500), sort_by |-> "date",
     has_image |-> TRUE, posted_today |-> TRUE, search_distance |-> Some(10),
     postal_code |-> Some("10001")] }

ToolMaxInputs == {-1, 0, 5, 25, MAX_RESULTS_CAP + 1}

DirectMaxInputs == {5, 45}

HTTPStatusInputs == { <<404, "Not Found">>, <<503, "Service Unavailable">> }

RequestErrorInputs == { "timed out" }

\* The arguments of a call: q the query, l the location, c the category, f
\* the filters, m max_results.
CallArgs(q, l, c, f, m) ==
  [query |-> q, location |-> l, category |-> c,
   min_price |-> f.min_price, max_price |-> f.max_price, sort_by |-> f.sort_by,
   has_image |-> f.has_image, posted_today |-> f.posted_today,
   bundle_duplicates |-> TRUE,
   search_distance |-> f.search_distance, postal_code |-> f.postal_code,
   max_results |-> m]

NoArgs == CallArgs("", "", "", CHOOSE f \in FilterInputs : IsNone(f.min_price), 0)

SearchInit ==
  /\ pc = "idle"
  /\ requested = None
  /\ args = NoArgs
  /\ loc = "" /\ cat = ""
  /\ all_results = <<>> /\ offset = 0 /\ url = ""
  /\ page_results = <<>> /\ fetched = <<>> /\ served = <<>>
  /\ response = NoResponse

\* The caller takes the returned dict; nothing of the call is kept.
Return ==
  /\ pc = "returned"
  /\ pc' = "idle"
  /\ requested' = None
  /\ args' = NoArgs
  /\ loc' = "" /\ cat' = ""
  /\ all_results' = <<>> /\ offset' = 0 /\ url' = ""
  /\ page_results' = <<>> /\ fetched' = <<>> /\ served' = <<>>
  /\ response' = NoResponse

ToolCall ==
  /\ pc = "idle"
  /\ \E q \in QueryInputs, l \in LocationInputs, c \in CategoryInputs,
     f \in FilterInputs, m \in ToolMaxInputs :
    search_craigslist(CallArgs(q, l, c, f, m))

DirectCall ==
  /\ pc = "idle"
  /\ \E q \in QueryInputs, l \in LocationInputs, c \in CategoryInputs,
     f \in FilterInputs, m \in DirectMaxInputs :
    SearchDirect(CallArgs(q, l, c, f, m))

PageFetched == \E n \in PageLens : FetchOk(PageOf(n, Len(fetched)))

PageHTTPError == \E s \in HTTPStatusInputs : FetchHTTPStatusError(s)

PageRequestError == \E m \in RequestErrorInputs : FetchRequestError(m)

\* ------------------------------------------------------------------------
\* The URL Builder called on its own
\* ------------------------------------------------------------------------

VARIABLES
  build_kwargs,  \* the keyword arguments of the _build_search_url call, each
                 \* one None when the caller leaves it out
  built_url      \* the string the call returned

urlVars == <<build_kwargs, built_url>>

\* No call made.
NoKwargs == [location |-> ""]

\* The parameters of _build_search_url with their defaults filled in for the
\* keyword arguments the caller left out.
BuildArgs(kw) ==
  [location |-> kw.location,
   category |-> IF IsNone(kw.category) THEN "sss" ELSE Val(kw.category),
   query |-> kw.query,
   min_price |-> kw.min_price,
   max_price |-> kw.max_price,
   sort_by |-> kw.sort_by,
   has_image |-> IF IsNone(kw.has_image) THEN FALSE ELSE Val(kw.has_image),
   posted_today |-> IF IsNone(kw.posted_today) THEN FALSE ELSE Val(kw.posted_today),
   bundle_duplicates |->
     IF IsNone(kw.bundle_duplicates) THEN TRUE ELSE Val(kw.bundle_duplicates),
   search_distance |-> kw.search_distance,
   postal_code |-> kw.postal_code,
   offset |-> IF IsNone(kw.offset) THEN 0 ELSE Val(kw.offset)]

\* _build_search_url(**kw)
BuildUrl(kw) ==
  /\ build_kwargs = NoKwargs
  /\ build_kwargs' = kw
  /\ built_url' = build_search_url(BuildArgs(kw))

\* The caller takes the URL.
TakeUrl ==
  /\ build_kwargs /= NoKwargs
  /\ build_kwargs' = NoKwargs
  /\ built_url' = ""

UrlInit ==
  /\ build_kwargs = NoKwargs
  /\ built_url = ""

Codes(table) == { table[i].code : i \in 1..Len(table) }

\* Every valid (location, category) pair, nothing else passed.
BuildForPair ==
  /\ build_kwargs = NoKwargs
  /\ \E l \in Codes(LOCATIONS), c \in Codes(CATEGORIES) :
    BuildUrl([location |-> l, category |-> Some(c), query |-> None,
              min_price |-> None, max_price |-> None, sort_by |-> None,
              has_image |-> None, posted_today |-> None,
              bundle_duplicates |-> None, search_distance |-> None,
              postal_code |-> None, offset |-> None])

QueryChoices == {None, Some(""), Some("mountain bike & co=1")}

PriceChoices == {None, Some(0)}

SortChoices == {None, Some(""), Some("date"), Some("bogus")}

FlagChoices == {None, Some(TRUE), Some(FALSE)}

DistanceChoices == {None, Some(10)}

PostalChoices == {None, Some(""), Some("10001")}

OffsetChoices == {None, Some(0), Some(20)}

\* Every combination of the optional inputs, for one pair.
BuildWithOptions ==
  /\ build_kwargs = NoKwargs
  /\ \E q \in QueryChoices, lo \in PriceChoices, hi \in PriceChoices,
     s \in SortChoices, hp \in FlagChoices, pt \in {None, Some(TRUE)},
     bd \in FlagChoices, d \in DistanceChoices, z \in PostalChoices,
     o \in OffsetChoices :
    BuildUrl([location |-> "sfbay", category |-> Some("cta"), query |-> q,
              min_price |-> lo, max_price |-> hi, sort_by |-> s,
              has_image |-> hp, posted_today |-> pt,
              bundle_duplicates |-> bd, search_distance |-> d,
              postal_code |-> z, offset |-> o])

\* ------------------------------------------------------------------------
\* Markup as BeautifulSoup presents it
\* ------------------------------------------------------------------------
\* A document is the sequence of its elements in document order.  An element
\* has a tag, a set of classes, the index of its parent (0: the document
\* itself), the text that stands in it before its first child, the text that
\* follows it inside its parent (tail) and its attributes (None when the
\* attribute is not there).

NoAttrs ==
  [id |-> None, href |-> None, src |-> None, data_src |-> None, datetime |-> None,
   data_latitude |-> None, data_longitude |-> None]

Element(tag, cls, parent, text, tail) ==
  [tag |-> tag, cls |-> cls, parent |-> parent, text |-> text, tail |-> tail,
   attrs |-> NoAttrs]

Anchor(cls, parent, href, text, tail) ==
  [tag |-> "a", cls |-> cls, parent |-> parent, text |-> text, tail |-> tail,
   attrs |-> [NoAttrs EXCEPT !.href = href]]

Indices(doc) == [j \in 1..Len(doc) |-> j]

RECURSIVE AncestorsOf(_, _)
AncestorsOf(doc, j) ==
  IF j = 0 \/ doc[j].parent = 0 THEN {}
  ELSE {doc[j].parent} \cup AncestorsOf(doc, doc[j].parent)

HasClass(doc, j, c) == c \in doc[j].cls

\* The descendant combinator: some ancestor of j has class c.
Below(doc, j, c) == \E k \in AncestorsOf(doc, j) : c \in doc[k].cls

\* The same with a tag asked of that ancestor.
BelowTagged(doc, j, c, tag) ==
  \E k \in AncestorsOf(doc, j) : c \in doc[k].cls /\ doc[k].tag = tag

Children(doc, i) == SelectSeq(Indices(doc), LAMBDA j : doc[j].parent = i)

RECURSIVE TextOf(_, _, _)
RECURSIVE TextOfAll(_, _, _)
\* tag.get_text() of element i (of the document for i = 0); with strip, every
\* string is stripped first, as get_text(strip=True) does.
TextOf(doc, i, strip) ==
  (IF i = 0 THEN "" ELSE IF strip THEN Strip(doc[i].text) ELSE doc[i].text)
    \o TextOfAll(doc, Children(doc, i), strip)

TextOfAll(doc, kids, strip) ==
  IF kids = <<>> THEN ""
  ELSE TextOf(doc, kids[1], strip)
         \o (IF strip THEN Strip(doc[kids[1]].tail) ELSE doc[kids[1]].tail)
         \o TextOfAll(doc, Tail(kids), strip)

\* ------------------------------------------------------------------------
\* The regular expressions of the extractor
\* ------------------------------------------------------------------------

RECURSIVE IndexFrom(_, _, _)
\* The first index >= i at which the character c stands in s, or 0.
IndexFrom(s, c, i) ==
  IF i > Len(s) THEN 0
  ELSE IF Char(s, i) = c THEN i
  ELSE IndexFrom(s, c, i + 1)

RECURSIVE RunEnd(_, _, _)
\* The last index of the longest run of characters of set that starts at i.
RunEnd(s, i, set) ==
  IF i < Len(s) /\ Char(s, i + 1) \in set THEN RunEnd(s, i + 1, set) ELSE i

DigitOrComma == CharsOf(Digits) \cup {","}

\* re.search(r"\$[\d,]+", s): <<start, end>> of the match, or None.
SearchDollar(s) ==
  LET starts == { i \in 1..(Len(s) - 1) :
                    Char(s, i) = "$" /\ Char(s, i + 1) \in DigitOrComma }
  IN  IF starts = {} THEN None
      ELSE LET i == CHOOSE k \in starts : \A m \in starts : k <= m
           IN  <<i, RunEnd(s, i + 1, DigitOrComma)>>

\* r"/[a-z]{3}/d/[^/]+/\d+\.html" matches s at index i.
ListingPatternAt(s, i) ==
  /\ i + 7 <= Len(s)
  /\ Char(s, i) = "/"
  /\ \A k \in 1..3 : Char(s, i + k) \in CharsOf(LowerAlpha)
  /\ SubSeq(s, i + 4, i + 6) = "/d/"
  /\ Char(s, i + 7) /= "/"
  /\ LET slash == IndexFrom(s, "/", i + 7) IN
     /\ slash /= 0
     /\ slash < Len(s)
     /\ Char(s, slash + 1) \in CharsOf(Digits)
     /\ LET last == RunEnd(s, slash + 1, CharsOf(Digits)) IN
        /\ last + 5 <= Len(s)
        /\ SubSeq(s, last + 1, last + 5) = ".html"

\* pattern.search(s) finds a match.
ListingPattern(s) == \E i \in 1..Len(s) : ListingPatternAt(s, i)

RECURSIVE RemoveAll(_, _)
\* s.replace(old, "")
RemoveAll(s, old) ==
  IF old = "" \/ Len(s) < Len(old) THEN s
  ELSE IF SubSeq(s, 1, Len(old)) = old
    THEN RemoveAll(SubSeq(s, Len(old) + 1, Len(s)), old)
  ELSE Head(s) \o RemoveAll(Tail(s), old)

\* ------------------------------------------------------------------------
\* Result-Set Extractor: _parse_search_results, _parse_single_result,
\* _parse_results_fallback
\* ------------------------------------------------------------------------

\* The origin prefixed to a relative href.
Resolve(href, location) ==
  IF ~StartsWith(href, "http")
    THEN "https://" \o location \o ".craigslist.org" \o href
    ELSE href

\* A CSS selector is the set of its comma-separated alternatives; an
\* alternative asks for a tag, a class, an id, an ancestor of a class and a
\* tag (the descendant combinator) and a substring of the href, "" asking
\* for nothing.
Simple(tag, c) ==
  [tag |-> tag, cls |-> c, id |-> "", below |-> "", belowtag |-> "", href |-> ""]

\* "#id"
ById(id) == [Simple("", "") EXCEPT !.id = id]

\* "li.cl-static-search-result"
StaticResult == {Simple("li", "cl-static-search-result")}

\* "div.result-row"
ResultRow == {Simple("div", "result-row")}

\* "li.cl-search-result"
GalleryCard == {Simple("li", "cl-search-result")}

\* ".result-info"
ResultInfo == {Simple("", "result-info")}

\* "a.titlestring, a.result-title, a.posting-title, .title a, a[href*='/d/']"
TitleLink ==
  {Simple("a", "titlestring"), Simple("a", "result-title"),
   Simple("a", "posting-title"),
   [Simple("a", "") EXCEPT !.below = "title"],
   [Simple("a", "") EXCEPT !.href = "/d/"]}

\* "a"
AnyLink == {Simple("a", "")}

\* "div.title, .result-title, span.title"
TitleDiv == {Simple("div", "title"), Simple("", "result-title"), Simple("span", "title")}

\* "div.price, .priceinfo, .result-price, span.price, .price"
PriceEl ==
  {Simple("div", "price"), Simple("", "priceinfo"), Simple("", "result-price"),
   Simple("span", "price"), Simple("", "price")}

\* "div.location, .result-hood, .neighborhood, .surlabel, .meta .area"
HoodEl ==
  {Simple("div", "location"), Simple("", "result-hood"), Simple("", "neighborhood"),
   Simple("", "surlabel"), [Simple("", "area") EXCEPT !.below = "meta"]}

\* "time, .result-date, .date, .meta .date"
DateEl ==
  {Simple("time", ""), Simple("", "result-date"), Simple("", "date"),
   [Simple("", "date") EXCEPT !.below = "meta"]}

\* "img"
ImgEl == {Simple("img", "")}

\* The element j is matched by the alternative s.
MatchesSimple(s, doc, j) ==
  /\ s.tag = "" \/ doc[j].tag = s.tag
  /\ s.cls = "" \/ HasClass(doc, j, s.cls)
  /\ s.id = "" \/ doc[j].attrs.id = Some(s.id)
  /\ \/ s.below = ""
     \/ s.belowtag = "" /\ Below(doc, j, s.below)
     \/ s.belowtag /= "" /\ BelowTagged(doc, j, s.below, s.belowtag)
  /\ s.href = "" \/ (~IsNone(doc[j].attrs.href) /\ Contains(s.href, Val(doc[j].attrs.href)))

\* The element j is matched by the selector.
Matches(selector, doc, j) == \E s \in selector : MatchesSimple(s, doc, j)

\* tag.select(selector): the elements below scope (0: the whole document)
\* that the selector matches, in document order.
Select(doc, scope, selector) ==
  SelectSeq(Indices(doc),
            LAMBDA j : (scope = 0 \/ scope \in AncestorsOf(doc, j))
                       /\ Matches(selector, doc, j))

\* tag.select_one(selector): the first of them, or 0 for None.
SelectOne(doc, scope, selector) ==
  LET found == Select(doc, scope, selector) IN
  IF found = <<>> THEN 0 ELSE found[1]

\* a or b, for optional strings: b when a is None or empty
OrElse(a, b) == IF Truthy(a) THEN a ELSE b

\* title_el: the first title link of the item, else its first link, else 0.
TitleEl(doc, item) ==
  LET first == SelectOne(doc, item, TitleLink) IN
  IF first /= 0 THEN first ELSE SelectOne(doc, item, AnyLink)

\* result["url"]: the href of title_el, "" when it has none, resolved against
\* the location's origin when it is not empty and not absolute.
HrefOf(doc, title_el, location) ==
  LET href == IF IsNone(doc[title_el].attrs.href) THEN ""
              ELSE Val(doc[title_el].attrs.href) IN
  IF href /= "" THEN Resolve(href, location) ELSE href

\* el.get_text(strip=True) when the element was found (0: it was not).
StrippedText(doc, el) == IF el /= 0 THEN Some(TextOf(doc, el, TRUE)) ELSE None

\* hood_el.get_text(strip=True).strip("() ") when hood_el was found.
HoodText(doc, hood_el) ==
  IF hood_el /= 0
    THEN Some(StripSet(TextOf(doc, hood_el, TRUE), {"(", ")", " "}))
    ELSE None

\* title, price and neighborhood of the result, from the texts of the
\* dedicated elements (None: not found) and the raw text of title_el.
RecoverFields(raw_text, title0, price0, hood0) ==
  LET price_match == SearchDollar(raw_text)
      before_price == Strip(SubSeq(raw_text, 1, price_match[1] - 1))
      after_price  == Strip(SubSeq(raw_text, price_match[2] + 1, Len(raw_text)))
      clean1    == Strip(RemoveAll(raw_text, Val(price0)))
      clean     == IF ~IsNone(hood0) THEN Strip(RemoveAll(clean1, Val(hood0))) ELSE clean1
  IN
  IF ~Truthy(title0)
    THEN IF IsNone(price0)
           THEN IF ~IsNone(price_match)
                  THEN [title |-> IF before_price /= "" THEN before_price ELSE raw_text,
                        price |-> Some(SubSeq(raw_text, price_match[1], price_match[2])),
                        neighborhood |->
                          IF after_price /= "" /\ IsNone(hood0)
                            THEN Some(after_price) ELSE hood0]
                  ELSE [title |-> raw_text, price |-> None, neighborhood |-> hood0]
           ELSE [title |-> IF clean /= "" THEN clean ELSE raw_text,
                 price |-> price0, neighborhood |-> hood0]
    ELSE [title |-> Val(title0), price |-> price0, neighborhood |-> hood0]

\* result["date"]
DateOf(doc, date_el) ==
  IF date_el /= 0
    THEN OrElse(doc[date_el].attrs.datetime, Some(TextOf(doc, date_el, TRUE)))
    ELSE None

\* result["thumbnail"]
ThumbnailOf(doc, img_el) ==
  IF img_el /= 0
    THEN OrElse(doc[img_el].attrs.src, doc[img_el].attrs.data_src)
    ELSE None

\* The dict _parse_single_result returns.
ResultDict(href, fields, date, thumbnail) ==
  [url |-> href,
   title |-> fields.title,
   price |-> fields.price,
   neighborhood |-> fields.neighborhood,
   date |-> date,
   thumbnail |-> thumbnail]

\* _parse_single_result from the point where title_el is known.
ParseWithTitleEl(doc, item, location, title_el) ==
  IF title_el = 0 THEN None
  ELSE Some(ResultDict(HrefOf(doc, title_el, location),
                       RecoverFields(TextOf(doc, title_el, TRUE),
                                     StrippedText(doc, SelectOne(doc, item, TitleDiv)),
                                     StrippedText(doc, SelectOne(doc, item, PriceEl)),
                                     HoodText(doc, SelectOne(doc, item, HoodEl))),
                       DateOf(doc, SelectOne(doc, item, DateEl)),
                       ThumbnailOf(doc, SelectOne(doc, item, ImgEl))))

\* _parse_single_result(item, location): Some(dict), or None when the item
\* holds no link.
parse_single_result(doc, item, location) ==
  ParseWithTitleEl(doc, item, location, TitleEl(doc, item))

\* The filter of soup.find_all("a", href=pattern)
ListingLink(doc, j) ==
  /\ doc[j].tag = "a"
  /\ ~IsNone(doc[j].attrs.href)
  /\ ListingPattern(Val(doc[j].attrs.href))

\* The anchors find_all returns, in document order.
FindAllListingLinks(doc) ==
  SelectSeq(Indices(doc), LAMBDA j : ListingLink(doc, j))

\* The dict _parse_results_fallback appends for the anchor a.
FallbackRecord(doc, a, href) ==
  LET price_match == SearchDollar(TextOf(doc, doc[a].parent, FALSE)) IN
  [title |-> TextOf(doc, a, TRUE),
   url |-> href,
   price |-> IF ~IsNone(price_match)
               THEN Some(SubSeq(TextOf(doc, doc[a].parent, FALSE),
                                price_match[1], price_match[2]))
               ELSE None,
   neighborhood |-> None,
   date |-> None,
   thumbnail |-> None]

RECURSIVE FallbackLoopNoDedupe(_, _, _, _, _)
\* FallbackLoop without the test against seen_urls.
FallbackLoopNoDedupe(doc, location, anchors, seen_urls, results) ==
  IF anchors = <<>> THEN results
  ELSE LET a     == anchors[1]
           href  == Resolve(Val(doc[a].attrs.href), location)
           title == TextOf(doc, a, TRUE)
       IN  IF title = "" \/ Len(title) < 3
             THEN FallbackLoopNoDedupe(doc, location, Tail(anchors),
                                       seen_urls \cup {href}, results)
           ELSE FallbackLoopNoDedupe(doc, location, Tail(anchors),
                                     seen_urls \cup {href},
                                     Append(results, FallbackRecord(doc, a, href)))

RECURSIVE FallbackLoopTextFirst(_, _, _, _, _)
\* The loop of _parse_results_fallback with the link text looked at before
\* the URL is put into seen_urls.
FallbackLoopTextFirst(doc, location, anchors, seen_urls, results) ==
  IF anchors = <<>> THEN results
  ELSE LET a     == anchors[1]
           href  == Resolve(Val(doc[a].attrs.href), location)
           title == TextOf(doc, a, TRUE)
       IN  IF href \in seen_urls \/ title = "" \/ Len(title) < 3
             THEN FallbackLoopTextFirst(doc, location, Tail(anchors),
                                        seen_urls, results)
           ELSE FallbackLoopTextFirst(doc, location, Tail(anchors),
                                      seen_urls \cup {href},
                                      Append(results, FallbackRecord(doc, a, href)))

RECURSIVE FallbackLoop(_, _, _, _, _)
\* The for loop of _parse_results_fallback over the anchors left.
FallbackLoop(doc, location, anchors, seen_urls, results) ==
  IF anchors = <<>> THEN results
  ELSE LET a     == anchors[1]
           href  == Resolve(Val(doc[a].attrs.href), location)
           title == TextOf(doc, a, TRUE)
       IN  IF href \in seen_urls
             THEN FallbackLoop(doc, location, Tail(anchors), seen_urls, results)
           ELSE IF title = "" \/ Len(title) < 3
             THEN FallbackLoop(doc, location, Tail(anchors),
                               seen_urls \cup {href}, results)
           ELSE FallbackLoop(doc, location, Tail(anchors), seen_urls \cup {href},
                             Append(results, FallbackRecord(doc, a, href)))

\* _parse_results_fallback(soup, location)
parse_results_fallback(doc, location) ==
  FallbackLoop(doc, location, FindAllListingLinks(doc), {}, <<>>)

\* The candidate nodes of all four selectors together.
ListingsAllStrategies(doc) ==
  Select(doc, 0, StaticResult \cup ResultRow \cup GalleryCard \cup ResultInfo)

\* The selector cascade of _parse_search_results.
Listings(doc) ==
  IF Select(doc, 0, StaticResult) /= <<>> THEN Select(doc, 0, StaticResult)
  ELSE IF Select(doc, 0, ResultRow) /= <<>> THEN Select(doc, 0, ResultRow)
  ELSE IF Select(doc, 0, GalleryCard) /= <<>> THEN Select(doc, 0, GalleryCard)
  ELSE Select(doc, 0, ResultInfo)

RECURSIVE ParseEachAbort(_, _, _)
\* The for loop giving up the rest of the batch at the first node that
\* yields no listing.
ParseEachAbort(doc, items, location) ==
  IF items = <<>> THEN <<>>
  ELSE LET listing == parse_single_result(doc, items[1], location) IN
       IF IsNone(listing) THEN <<>>
       ELSE <<Val(listing)>> \o ParseEachAbort(doc, Tail(items), location)

RECURSIVE ParseEach(_, _, _)
\* The for loop of _parse_search_results over the candidate nodes.
ParseEach(doc, items, location) ==
  IF items = <<>> THEN <<>>
  ELSE LET listing == parse_single_result(doc, items[1], location) IN
       (IF ~IsNone(listing) THEN <<Val(listing)>> ELSE <<>>)
         \o ParseEach(doc, Tail(items), location)

\* _parse_search_results(html, location), html parsed into doc
parse_search_results(doc, location) ==
  LET results == ParseEach(doc, Listings(doc), location) IN
  IF results = <<>> THEN parse_results_fallback(doc, location) ELSE results

\* ------------------------------------------------------------------------
\* The Result-Set Extractor called on its own
\* ------------------------------------------------------------------------

VARIABLES
  parse_called,    \* _parse_search_results has been called and has returned
  parse_doc,       \* the markup it was given
  parse_location,  \* the location code it was given
  anchor_parts,    \* <<title, amount, suffix>> when the markup is one listing
                   \* node holding one anchor of that text, else <<>>
  parse_results    \* the list it returned

extractVars ==
  <<parse_called, parse_doc, parse_location, anchor_parts, parse_results>>

ExtractInit ==
  /\ parse_called = FALSE
  /\ parse_doc = <<>>
  /\ parse_location = ""
  /\ anchor_parts = <<>>
  /\ parse_results = <<>>

\* _parse_search_results(html, location)
ParseSearchResults(doc, location, parts) ==
  /\ ~parse_called
  /\ parse_called' = TRUE
  /\ parse_doc' = doc
  /\ parse_location' = location
  /\ anchor_parts' = parts
  /\ parse_results' = parse_search_results(doc, location)

\* The caller takes the list.
TakeResults ==
  /\ parse_called
  /\ parse_called' = FALSE
  /\ parse_doc' = <<>>
  /\ parse_location' = ""
  /\ anchor_parts' = <<>>
  /\ parse_results' = <<>>

\* The pieces of markup the extractor is exercised with.  Those of LinkBlocks
\* hold nothing a structural selector matches.
LinkBlocks ==
  << \* <p><a href="/mnh/d/mountain-bike/7712345678.html">Mountain Bike</a> $150</p>
     << Element("p", {}, 0, "", ""),
        Anchor({}, 1, Some("/mnh/d/mountain-bike/7712345678.html"),
               "Mountain Bike", " $150") >>,
     \* the same listing by its absolute URL
     << Anchor({}, 0, Some("https://sfbay.craigslist.org/mnh/d/mountain-bike/7712345678.html"),
               "Bike again", "") >>,
     \* the same listing, a link text of two characters
     << Element("p", {}, 0, "", ""),
        Anchor({}, 1, Some("/mnh/d/mountain-bike/7712345678.html"), "ab", "") >>,
     \* another listing, no price near it
     << Element("p", {}, 0, "", ""),
        Anchor({}, 1, Some("/brk/d/comfy-couch/7700000001.html"),
               " Comfy Couch ", "") >>,
     \* a listing whose link has no text
     << Element("span", {}, 0, "", ""),
        Anchor({}, 1, Some("/que/d/desk/7700000002.html"), "", " $40") >>,
     \* a link that is no listing
     << Anchor({}, 0, Some("/about/help"), "Help pages", "") >> >>

StructuralBlocks ==
  << \* <li class="cl-static-search-result"><a href=...><div class="title">..
     << Element("li", {"cl-static-search-result"}, 0, "", ""),
        Anchor({}, 1, Some("/sfc/d/road-bike/7700000003.html"), "", ""),
        Element("div", {"title"}, 2, "Road Bike", ""),
        Element("div", {"details"}, 2, "", ""),
        Element("div", {"price"}, 4, "$300", ""),
        Element("div", {"location"}, 4, " (mission district) ", "") >>,
     \* <div class="result-row"> without a link
     << Element("div", {"result-row"}, 0, "sponsored", "") >>,
     \* <li class="cl-search-result"> gallery card
     << Element("li", {"cl-search-result"}, 0, "", ""),
        Anchor({"posting-title"}, 1, Some("/eby/d/oak-table/7700000004.html"), "", ""),
        Element("span", {"label"}, 2, "Oak Table", ""),
        Element("span", {"priceinfo"}, 1, "$80", ""),
        [Element("time", {}, 1, "5/1", "") EXCEPT !.attrs.datetime = Some("2024-05-01")],
        [Element("img", {}, 1, "", "") EXCEPT !.attrs.data_src = Some("https://images.craigslist.org/t.jpg")] >>,
     \* <div class="result-info"> of the old layout
     << Element("div", {"result-info"}, 0, "", ""),
        Anchor({"result-title"}, 1, Some("/nby/d/lamp/7700000005.html"), "Lamp", ""),
        Element("span", {"result-price"}, 1, "$10", ""),
        Element("span", {"result-hood"}, 1, " (napa)", "") >>,
     \* <div class="result-row"> with a link and a price
     << Element("div", {"result-row"}, 0, "", ""),
        Anchor({"result-title"}, 1, Some("/sby/d/desk-lamp/7700000006.html"),
               "Desk Lamp", ""),
        Element("span", {"result-price"}, 1, "$15", "") >> >>

Blocks == LinkBlocks \o StructuralBlocks

\* The most blocks a document is put together from.
MaxBlocks == 3

\* The document doc followed by the block b.
WithBlock(doc, b) ==
  doc \o [j \in 1..Len(b) |->
            IF b[j].parent = 0 THEN b[j]
            ELSE [b[j] EXCEPT !.parent = b[j].parent + Len(doc)]]

RECURSIVE DocOf(_)
\* The document made of the blocks numbered by the sequence ks.
DocOf(ks) ==
  IF ks = <<>> THEN <<>>
  ELSE WithBlock(DocOf(SubSeq(ks, 1, Len(ks) - 1)), Blocks[ks[Len(ks)]])

BlockChoices == UNION { [1..n -> 1..Len(Blocks)] : n \in 0..MaxBlocks }

ParseLocationInputs == {"sfbay"}

ParseBlocks ==
  /\ ~parse_called
  /\ \E ks \in BlockChoices, l \in ParseLocationInputs :
       ParseSearchResults(DocOf(ks), l, <<>>)

TitleTexts == {"Mountain Bike", "Couch", "2 chairs", "IKEA desk -", ""}

AmountTexts == {"$150", "$1,200", "$5", "$0", "$99,"}

SuffixTexts == {"(Brooklyn)", " (Upper West Side)", "", "Queens", "(soma) "}

\* <li class="cl-static-search-result"><a href=...>text</a></li>
AnchorNode(text) ==
  << Element("li", {"cl-static-search-result"}, 0, "", ""),
     Anchor({}, 1, Some("/mnh/d/mountain-bike/7712345678.html"), text, "") >>

ParseAnchorNode ==
  /\ ~parse_called
  /\ \E t \in TitleTexts, p \in AmountTexts, h \in SuffixTexts,
        l \in ParseLocationInputs :
       ParseSearchResults(AnchorNode(t \o " " \o p \o h), l, <<t, p, h>>)

\* The links to one listing a page repeats: by the path and by the absolute
\* URL, with no text, a text of two characters, and a title.
LinkHrefs ==
  { "/que/d/oak-desk/7700000007.html",
    "https://sfbay.craigslist.org/que/d/oak-desk/7700000007.html" }

LinkTexts == {"", " ab ", "Oak Desk"}

\* The most links such a page holds.
MaxLinks == 3

\* <a href=...>text</a> for each <<href, text>> of links.
LinksDoc(links) ==
  [j \in 1..Len(links) |-> Anchor({}, 0, Some(links[j][1]), links[j][2], "")]

ParseLinks ==
  /\ ~parse_called
  /\ \E n \in 1..MaxLinks, l \in ParseLocationInputs :
       \E links \in [1..n -> LinkHrefs \X LinkTexts] :
         ParseSearchResults(LinksDoc(links), l, <<>>)

\* ------------------------------------------------------------------------
\* Detail Extractor: _parse_listing_detail
\* ------------------------------------------------------------------------

\* A dict in insertion order: a sequence of <<key, value>> with distinct keys.
DictKeys(d) == { d[i][1] : i \in 1..Len(d) }

\* d[k] = v: a new key goes to the end, a known key keeps its place.
DictSet(d, k, v) ==
  IF k \in DictKeys(d)
    THEN [i \in 1..Len(d) |-> IF d[i][1] = k THEN <<k, v>> ELSE d[i]]
    ELSE Append(d, <<k, v>>)

\* A string of the tree as get_text(strip=True) keeps it: stripped, and
\* dropped when that leaves nothing.
StrippedString(s) == IF Strip(s) = "" THEN <<>> ELSE <<Strip(s)>>

RECURSIVE StringsOf(_, _)
RECURSIVE StringsOfAll(_, _)
\* The stripped strings of the element i, in document order.
StringsOf(doc, i) ==
  StrippedString(doc[i].text) \o StringsOfAll(doc, Children(doc, i))

StringsOfAll(doc, kids) ==
  IF kids = <<>> THEN <<>>
  ELSE StringsOf(doc, kids[1]) \o StrippedString(doc[kids[1]].tail)
         \o StringsOfAll(doc, Tail(kids))

RECURSIVE Join(_, _)
\* sep.join(strings)
Join(sep, strings) ==
  IF strings = <<>> THEN ""
  ELSE IF Len(strings) = 1 THEN strings[1]
  ELSE strings[1] \o sep \o Join(sep, Tail(strings))

\* tag.get_text(sep, strip=True)
TextSep(doc, i, sep) == Join(sep, StringsOf(doc, i))

\* What tag.decompose() leaves of an element.
Decomposed == Element("", {}, 0, "", "")

\* The tree after tag.decompose() of every element of removed: they and
\* their descendants match no selector and hold no text; the text that
\* follows a removed element stays.
Decompose(doc, removed) ==
  [j \in 1..Len(doc) |->
     IF AncestorsOf(doc, j) \cap removed /= {}
       THEN [Decomposed EXCEPT !.parent = doc[j].parent]
     ELSE IF j \in removed
       THEN [Decomposed EXCEPT !.parent = doc[j].parent, !.tail = doc[j].tail]
     ELSE doc[j]]

RECURSIVE SkipWhile(_, _, _)
\* The first index >= i of s whose character is not in set, Len(s) + 1 when
\* there is none.
SkipWhile(s, i, set) ==
  IF i <= Len(s) /\ Char(s, i) \in set THEN SkipWhile(s, i + 1, set) ELSE i

\* r"\s*-?\s*\$[\d,]+\s*(\([^)]*\))?\s*$" matches s from index i to its end.
PriceSuffixAt(s, i) ==
  LET dash   == SkipWhile(s, i, Whitespace)
      dollar == SkipWhile(s, IF dash <= Len(s) /\ Char(s, dash) = "-"
                               THEN dash + 1 ELSE dash, Whitespace)
  IN  /\ dollar < Len(s)
      /\ Char(s, dollar) = "$"
      /\ Char(s, dollar + 1) \in DigitOrComma
      /\ LET paren == SkipWhile(s, SkipWhile(s, dollar + 1, DigitOrComma), Whitespace) IN
         \/ paren = Len(s) + 1
         \/ /\ Char(s, paren) = "("
            /\ IndexFrom(s, ")", paren + 1) /= 0
            /\ SkipWhile(s, IndexFrom(s, ")", paren + 1) + 1, Whitespace) = Len(s) + 1

\* re.sub(that pattern, "", s): s without its leftmost match.
SubPriceSuffix(s) ==
  LET starts == { i \in 1..Len(s) : PriceSuffixAt(s, i) } IN
  IF starts = {} THEN s
  ELSE SubSeq(s, 1, (CHOOSE i \in starts : \A k \in starts : i <= k) - 1)

\* The digits of s read as a decimal number.
RECURSIVE StrToNat(_)
StrToNat(s) ==
  IF s = "" THEN 0
  ELSE 10 * StrToNat(SubSeq(s, 1, Len(s) - 1))
         + (CHOOSE d \in 0..9 : Char(Digits, d + 1) = Char(s, Len(s)))

\* float(s) reads: optional sign, then inf, infinity or nan, or digits with
\* an optional point and an optional exponent, in surrounding whitespace
\* (it also reads digits grouped by "_", which the attribute values used
\* here do not hold).
\* FloatParts gives the pieces of a decimal literal, ok telling whether s is
\* one.
FloatParts(s) ==
  LET body   == Strip(s)
      first  == IF body /= "" /\ Head(body) \in {"+", "-"} THEN 2 ELSE 1
      point  == SkipWhile(body, first, CharsOf(Digits))
      hasdot == point <= Len(body) /\ Char(body, point) = "."
      fend   == IF hasdot THEN SkipWhile(body, point + 1, CharsOf(Digits)) ELSE point
      hasexp == fend <= Len(body) /\ Char(body, fend) \in {"e", "E"}
      efirst == IF hasexp /\ fend + 1 <= Len(body) /\ Char(body, fend + 1) \in {"+", "-"}
                  THEN fend + 2 ELSE fend + 1
      eend   == IF hasexp THEN SkipWhile(body, efirst, CharsOf(Digits)) ELSE fend
  IN  [ok |-> /\ (point - first) + (IF hasdot THEN fend - point - 1 ELSE 0) >= 1
              /\ hasexp => eend > efirst
              /\ eend = Len(body) + 1,
       neg |-> body /= "" /\ Head(body) = "-",
       int |-> SubSeq(body, first, point - 1),
       frac |-> IF hasdot THEN SubSeq(body, point + 1, fend - 1) ELSE "",
       exp |-> IF hasexp
                 THEN (IF Char(body, efirst - 1) = "-" THEN -1 ELSE 1)
                        * StrToNat(SubSeq(body, efirst, eend - 1))
                 ELSE 0]

\* The words float() reads besides decimal literals.
FloatWords == {"inf", "infinity", "nan"}

FloatWord(s) ==
  LET body == Lower(Strip(s)) IN
  IF body /= "" /\ Head(body) \in {"+", "-"} THEN Tail(body) ELSE body

\* float(s) returns rather than raising ValueError.
IsFloat(s) == FloatWord(s) \in FloatWords \/ FloatParts(s).ok

RECURSIVE Normalised(_, _)
\* mantissa * 10^exp without trailing zeros in the mantissa.
Normalised(mantissa, exp) ==
  IF mantissa = 0 THEN [mantissa |-> 0, exp |-> 0]
  ELSE IF mantissa % 10 = 0 THEN Normalised(mantissa \div 10, exp + 1)
  ELSE [mantissa |-> mantissa, exp |-> exp]

\* The number float(s) returns, for s that IsFloat: its sign and its value
\* as mantissa * 10^exp, or the word it names.
FloatOf(s) ==
  IF FloatWord(s) \in FloatWords
    THEN [neg |-> Head(Strip(s)) = "-", word |-> FloatWord(s)]
    ELSE LET p == FloatParts(s)
             n == Normalised(StrToNat(p.int \o p.frac), p.exp - Len(p.frac))
         IN  [neg |-> p.neg, mantissa |-> n.mantissa, exp |-> n.exp]

\* el.get_text(strip=True) if el else None (0: select_one found nothing)
TextOrNone(doc, el) == IF el /= 0 THEN Some(TextOf(doc, el, TRUE)) ELSE None

\* ".postingtitletext, h1.postingtitle"
PostingTitle == {Simple("", "postingtitletext"), Simple("h1", "postingtitle")}

\* The title of a posting-title element: its text without the price and
\* location suffix, or the whole text when nothing else is left.
CleanedTitle(raw) ==
  IF Strip(SubPriceSuffix(raw)) /= "" THEN Strip(SubPriceSuffix(raw)) ELSE raw

\* result["title"]
TitleFrom(doc, title_only_el, title_el, page_title_el) ==
  IF title_only_el /= 0 THEN TextOf(doc, title_only_el, TRUE)
  ELSE IF title_el /= 0 THEN CleanedTitle(TextOf(doc, title_el, TRUE))
  ELSE IF page_title_el /= 0 THEN TextOf(doc, page_title_el, TRUE)
  ELSE "Unknown"

DetailTitle(doc) ==
  TitleFrom(doc, SelectOne(doc, 0, {ById("titletextonly")}),
            SelectOne(doc, 0, PostingTitle),
            SelectOne(doc, 0, {Simple("title", "")}))

\* ".price, .postingtitletext .price"
DetailPriceEl ==
  {Simple("", "price"), [Simple("", "price") EXCEPT !.below = "postingtitletext"]}

\* The tree once the print information is taken out of the posting body
\* (the body element is body_el, 0 when there is none).
WithoutPrintInformation(doc, body_el) ==
  IF body_el = 0 THEN doc
  ELSE LET qr == Select(doc, body_el, {Simple("", "print-information")}) IN
       Decompose(doc, { qr[k] : k \in 1..Len(qr) })

\* span.get_text(strip=True).rstrip(":").strip().lower()
LabelOf(doc, span) == Lower(Strip(RStripSet(TextOf(doc, span, TRUE), {":"})))

\* The value branch with the make/model marker looked at before the year
\* marker.
StandaloneValueModelFirst(attrs, classes, val) ==
  IF "makemodel" \in classes /\ val /= "" THEN DictSet(attrs, "make/model", val)
  ELSE IF "year" \in classes /\ val /= "" THEN DictSet(attrs, "year", val)
  ELSE IF val /= "" THEN DictSet(attrs, Lower(val), "yes")
  ELSE attrs

\* The elif "valu" in classes branch: a value span no label came before.
StandaloneValue(attrs, classes, val) ==
  IF "year" \in classes /\ val /= "" THEN DictSet(attrs, "year", val)
  ELSE IF "makemodel" \in classes /\ val /= "" THEN DictSet(attrs, "make/model", val)
  ELSE IF val /= "" THEN DictSet(attrs, Lower(val), "yes")
  ELSE attrs

\* The else branch: a span of neither class, with text its get_text(" ",
\* strip=True).
GenericSpan(attrs, text) ==
  LET colon == IndexFrom(text, ":", 1)
      key   == Lower(Strip(SubSeq(text, 1, colon - 1)))
      val   == Strip(SubSeq(text, colon + 1, Len(text)))
  IN  IF colon /= 0
        THEN (IF key /= "" /\ val /= "" THEN DictSet(attrs, key, val) ELSE attrs)
      ELSE IF text /= "" THEN DictSet(attrs, Lower(text), "yes")
      ELSE attrs

\* The label branch when a value span follows, and when none does.
LabelWithValue(attrs, label, val) ==
  IF label /= "" /\ val /= "" THEN DictSet(attrs, label, val) ELSE attrs

LabelAlone(attrs, label) ==
  IF label /= "" THEN DictSet(attrs, label, "") ELSE attrs

RECURSIVE PairSpansKeepValue(_, _, _, _)
\* The loop without the i += 2: the value span after a label is looked at
\* again on its own.
PairSpansKeepValue(doc, spans, i, attrs) ==
  IF i > Len(spans) THEN attrs
  ELSE IF "labl" \in doc[spans[i]].cls
    THEN IF i + 1 <= Len(spans) /\ "valu" \in doc[spans[i + 1]].cls
           THEN PairSpansKeepValue(doc, spans, i + 1,
                                   LabelWithValue(attrs, LabelOf(doc, spans[i]),
                                                  TextOf(doc, spans[i + 1], TRUE)))
           ELSE PairSpansKeepValue(doc, spans, i + 1,
                                   LabelAlone(attrs, LabelOf(doc, spans[i])))
  ELSE IF "valu" \in doc[spans[i]].cls
    THEN PairSpansKeepValue(doc, spans, i + 1,
                            StandaloneValue(attrs, doc[spans[i]].cls,
                                            TextOf(doc, spans[i], TRUE)))
  ELSE PairSpansKeepValue(doc, spans, i + 1,
                          GenericSpan(attrs, TextSep(doc, spans[i], " ")))

RECURSIVE PairSpans(_, _, _, _)
\* The while loop over the spans of one attribute group, from index i.
PairSpans(doc, spans, i, attrs) ==
  IF i > Len(spans) THEN attrs
  ELSE IF "labl" \in doc[spans[i]].cls
    THEN IF i + 1 <= Len(spans) /\ "valu" \in doc[spans[i + 1]].cls
           THEN PairSpans(doc, spans, i + 2,
                          LabelWithValue(attrs, LabelOf(doc, spans[i]),
                                         TextOf(doc, spans[i + 1], TRUE)))
           ELSE PairSpans(doc, spans, i + 1,
                          LabelAlone(attrs, LabelOf(doc, spans[i])))
  ELSE IF "valu" \in doc[spans[i]].cls
    THEN PairSpans(doc, spans, i + 1,
                   StandaloneValue(attrs, doc[spans[i]].cls, TextOf(doc, spans[i], TRUE)))
  ELSE PairSpans(doc, spans, i + 1, GenericSpan(attrs, TextSep(doc, spans[i], " ")))

RECURSIVE PairGroups(_, _, _)
\* The for loop over the attribute groups.
PairGroups(doc, groups, attrs) ==
  IF groups = <<>> THEN attrs
  ELSE PairGroups(doc, Tail(groups),
                  PairSpans(doc, Select(doc, groups[1], {Simple("span", "")}), 1, attrs))

\* A dict or a list when it holds something, else None.
OrNone(collection) == IF collection /= <<>> THEN Some(collection) ELSE None

\* result["attributes"]
DetailAttributes(doc) ==
  OrNone(PairGroups(doc, Select(doc, 0, {Simple("", "attrgroup")}), <<>>))

\* ".mapaddress, div.mapAndAttrs small"
MapAddress ==
  {Simple("", "mapaddress"),
   [Simple("small", "") EXCEPT !.below = "mapAndAttrs", !.belowtag = "div"]}

\* Lines 886-891: whether float raises, and the pair set otherwise (None
\* when latitude and longitude are left out of the result).
Coordinates(doc, map_el) ==
  IF map_el = 0
       \/ ~Truthy(doc[map_el].attrs.data_latitude)
       \/ ~Truthy(doc[map_el].attrs.data_longitude)
    THEN [raises |-> FALSE, pair |-> None]
  ELSE IF IsFloat(Val(doc[map_el].attrs.data_latitude))
            /\ IsFloat(Val(doc[map_el].attrs.data_longitude))
    THEN [raises |-> FALSE,
          pair |-> Some(<<FloatOf(Val(doc[map_el].attrs.data_latitude)),
                          FloatOf(Val(doc[map_el].attrs.data_longitude))>>)]
  ELSE [raises |-> TRUE, pair |-> None]

\* "time.date, time.timeago"
PostedEl == {Simple("time", "date"), Simple("time", "timeago")}

\* result["posted"]
DetailPosted(doc, time_el) ==
  IF time_el /= 0
    THEN OrElse(doc[time_el].attrs.datetime, Some(TextOf(doc, time_el, TRUE)))
    ELSE None

\* "a.thumb, .gallery img, .swipe img"
ImageLink ==
  {Simple("a", "thumb"),
   [Simple("img", "") EXCEPT !.below = "gallery"],
   [Simple("img", "") EXCEPT !.below = "swipe"]}

\* img_link.get("href") or img_link.get("src") or img_link.get("data-src")
ImageSource(attrs) == OrElse(OrElse(attrs.href, attrs.src), attrs.data_src)

\* images.append(src) for every source, listed or not.
AddImageAgain(images, src) ==
  IF Truthy(src) THEN Append(images, Val(src)) ELSE images

\* if src and src not in images: images.append(src)
AddImage(images, src) ==
  IF Truthy(src) /\ \A k \in 1..Len(images) : images[k] /= Val(src)
    THEN Append(images, Val(src))
    ELSE images

RECURSIVE CollectImages(_, _, _)
\* The for loop over the image links.
CollectImages(doc, links, images) ==
  IF links = <<>> THEN images
  ELSE CollectImages(doc, Tail(links), AddImage(images, ImageSource(doc[links[1]].attrs)))

RECURSIVE CollectThumbs(_, _, _)
\* The for loop over the links of the thumbnails container.
CollectThumbs(doc, links, images) ==
  IF links = <<>> THEN images
  ELSE CollectThumbs(doc, Tail(links), AddImage(images, doc[links[1]].attrs.href))

\* result["images"]
DetailImages(doc, thumb_div) ==
  OrNone(IF thumb_div /= 0
           THEN CollectThumbs(doc, Select(doc, thumb_div, AnyLink),
                              CollectImages(doc, Select(doc, 0, ImageLink), <<>>))
           ELSE CollectImages(doc, Select(doc, 0, ImageLink), <<>>))

\* The dict _parse_listing_detail returns; latitude and longitude are keys
\* of it only when they were set.
DetailDict(listing_url, title, price, description, attributes, location, pair, posted, images) ==
  IF IsNone(pair)
    THEN [url |-> listing_url, title |-> title, price |-> price, description |-> description,
          attributes |-> attributes, location |-> location, posted |-> posted,
          images |-> images]
    ELSE [url |-> listing_url, title |-> title, price |-> price, description |-> description,
          attributes |-> attributes, location |-> location,
          latitude |-> Val(pair)[1], longitude |-> Val(pair)[2],
          posted |-> posted, images |-> images]

\* The raise of float(lat) or float(lon), which nothing catches.
ValueError == [raised |-> "ValueError"]

\* _parse_listing_detail from the description on: doc is the tree as parsed,
\* soup the tree once the print information is out of the posting body.
DetailFrom(doc, soup, body_el, coordinates, listing_url) ==
  IF coordinates.raises THEN ValueError
  ELSE DetailDict(listing_url,
                  DetailTitle(doc),
                  TextOrNone(doc, SelectOne(doc, 0, DetailPriceEl)),
                  TextOrNone(soup, body_el),
                  DetailAttributes(soup),
                  TextOrNone(soup, SelectOne(soup, 0, MapAddress)),
                  coordinates.pair,
                  DetailPosted(soup, SelectOne(soup, 0, PostedEl)),
                  DetailImages(soup, SelectOne(soup, 0, {ById("thumbs")})))

DetailAfterBody(doc, soup, body_el, listing_url) ==
  DetailFrom(doc, soup, body_el,
             Coordinates(soup, SelectOne(soup, 0, {ById("map")})), listing_url)

DetailWithBody(doc, body_el, listing_url) ==
  DetailAfterBody(doc, WithoutPrintInformation(doc, body_el), body_el, listing_url)

\* _parse_listing_detail(html, listing_url), html parsed into doc: the dict, or
\* ValueError for the exception it lets through.
parse_listing_detail(doc, listing_url) ==
  DetailWithBody(doc, SelectOne(doc, 0, {ById("postingbody")}), listing_url)

\* ------------------------------------------------------------------------
\* The Detail Extractor called on its own
\* ------------------------------------------------------------------------

VARIABLES
  detail_called,  \* _parse_listing_detail has been called and has ended
  detail_doc,     \* the markup it was given
  span_parts,     \* the spans of the attribute group, in order, when the
                  \* markup is one attribute group of spans, else <<>>
  detail_result   \* the dict it returned, or ValueError when it raised

detailVars == <<detail_called, detail_doc, span_parts, detail_result>>

\* No dict returned (yet).
NoDetail == [pending |-> TRUE]

DetailInit ==
  /\ detail_called = FALSE
  /\ detail_doc = <<>>
  /\ span_parts = <<>>
  /\ detail_result = NoDetail

\* _parse_listing_detail(html, url)
ParseListingDetail(doc, listing_url, parts) ==
  /\ ~detail_called
  /\ detail_called' = TRUE
  /\ detail_doc' = doc
  /\ span_parts' = parts
  /\ detail_result' = parse_listing_detail(doc, listing_url)

\* The caller takes the dict, or the exception.
TakeDetail ==
  /\ detail_called
  /\ detail_called' = FALSE
  /\ detail_doc' = <<>>
  /\ span_parts' = <<>>
  /\ detail_result' = NoDetail

\* The pieces of markup the detail extractor is exercised with.
DetailBlocks ==
  << \* <span id="titletextonly">Road Bike</span>
     << [Element("span", {}, 0, "Road Bike", "") EXCEPT !.attrs.id = Some("titletextonly")] >>,
     \* <h1 class="postingtitle"><span class="postingtitletext">Honda Civic -
     \*   <span class="price">$1,200</span><small> (Covington)</small></span></h1>
     << Element("h1", {"postingtitle"}, 0, "", ""),
        Element("span", {"postingtitletext"}, 1, "Honda Civic - ", ""),
        Element("span", {"price"}, 2, "$1,200", ""),
        Element("small", {}, 2, " (Covington)", "") >>,
     \* <title>Road Bike - bicycles - by owner</title>
     << Element("title", {}, 0, "Road Bike - bicycles - by owner", "") >>,
     \* <section id="postingbody"><div class="print-information">QR Code Link
     \*   to This Post</div> Great bike, barely used. </section>
     << [Element("section", {}, 0, "", "") EXCEPT !.attrs.id = Some("postingbody")],
        Element("div", {"print-information"}, 1, "QR Code Link to This Post",
                " Great bike, barely used. ") >>,
     \* <p class="attrgroup"><span>condition: <b>like new</b></span>
     \*   <span class="valu year">2015</span></p>
     << Element("p", {"attrgroup"}, 0, "", ""),
        Element("span", {}, 1, "condition: ", ""),
        Element("b", {}, 2, "like new", ""),
        Element("span", {"valu", "year"}, 1, "2015", "") >>,
     \* <div id="map" data-latitude="37.7749" data-longitude="-122.4194">
     << [Element("div", {}, 0, "", "")
           EXCEPT !.attrs.id = Some("map"),
                  !.attrs.data_latitude = Some("37.7749"),
                  !.attrs.data_longitude = Some("-122.4194")] >>,
     \* <div id="map" data-latitude="N/A" data-longitude="-122.4194">
     << [Element("div", {}, 0, "", "")
           EXCEPT !.attrs.id = Some("map"),
                  !.attrs.data_latitude = Some("N/A"),
                  !.attrs.data_longitude = Some("-122.4194")] >>,
     \* <div id="map" data-latitude="37.7749">
     << [Element("div", {}, 0, "", "")
           EXCEPT !.attrs.id = Some("map"),
                  !.attrs.data_latitude = Some("37.7749")] >>,
     \* <div class="mapaddress">123 Main St</div>
     << Element("div", {"mapaddress"}, 0, "123 Main St", "") >>,
     \* <time class="date timeago" datetime="2024-05-01T10:00:00-0700">
     << [Element("time", {"date", "timeago"}, 0, "about a month ago", "")
           EXCEPT !.attrs.datetime = Some("2024-05-01T10:00:00-0700")] >>,
     \* <a class="thumb" href="https://images.craigslist.org/a_600x450.jpg">
     << Anchor({"thumb"}, 0, Some("https://images.craigslist.org/a_600x450.jpg"), "", "") >>,
     \* <div class="gallery"><img src=".../a_600x450.jpg">
     \*   <img data-src=".../b_600x450.jpg"><img></div>
     << Element("div", {"gallery"}, 0, "", ""),
        [Element("img", {}, 1, "", "")
           EXCEPT !.attrs.src = Some("https://images.craigslist.org/a_600x450.jpg")],
        [Element("img", {}, 1, "", "")
           EXCEPT !.attrs.data_src = Some("https://images.craigslist.org/b_600x450.jpg")],
        Element("img", {}, 1, "", "") >>,
     \* <div id="thumbs"><a class="thumb" href=".../b_600x450.jpg"></a>
     \*   <a href=".../c_600x450.jpg"></a></div>
     << [Element("div", {}, 0, "", "") EXCEPT !.attrs.id = Some("thumbs")],
        Anchor({"thumb"}, 1, Some("https://images.craigslist.org/b_600x450.jpg"), "", ""),
        Anchor({}, 1, Some("https://images.craigslist.org/c_600x450.jpg"), "", "") >> >>

\* The most blocks a listing page is put together from.
MaxDetailBlocks == 3

RECURSIVE DetailDocOf(_)
\* The listing page made of the blocks numbered by the sequence ks.
DetailDocOf(ks) ==
  IF ks = <<>> THEN <<>>
  ELSE WithBlock(DetailDocOf(SubSeq(ks, 1, Len(ks) - 1)), DetailBlocks[ks[Len(ks)]])

DetailBlockChoices ==
  UNION { [1..n -> 1..Len(DetailBlocks)] : n \in 0..MaxDetailBlocks }

DetailUrlInputs == {"https://sfbay.craigslist.org/sfc/bik/d/road-bike/7700000003.html"}

ParseDetailBlocks ==
  /\ ~detail_called
  /\ \E ks \in DetailBlockChoices, u \in DetailUrlInputs :
       ParseListingDetail(DetailDocOf(ks), u, <<>>)

\* The spans an attribute group is put together from: labels, values and
\* spans of neither class.
AttrSpans ==
  << [cls |-> {"labl"}, text |-> "condition"],
     [cls |-> {"labl"}, text |-> "Odometer: "],
     [cls |-> {"labl"}, text |-> ":"],
     [cls |-> {"valu"}, text |-> "like new"],
     [cls |-> {"valu"}, text |-> ""],
     [cls |-> {"valu", "year"}, text |-> "2020"],
     [cls |-> {"valu", "makemodel"}, text |-> "honda civic"],
     [cls |-> {"valu"}, text |-> "Condition"],
     [cls |-> {}, text |-> "fuel: gas"],
     [cls |-> {}, text |-> "Clean Title"] >>

\* The most spans an attribute group holds.
MaxSpans == 3

SpanChoices == UNION { [1..n -> 1..Len(AttrSpans)] : n \in 0..MaxSpans }

\* <div class="attrgroup"><span class=...>text</span>...</div>
AttrGroup(spans) ==
  << Element("div", {"attrgroup"}, 0, "", "") >>
    \o [j \in 1..Len(spans) |-> Element("span", spans[j].cls, 1, spans[j].text, "")]

\* The spans two attribute groups of one page are put together from: value
\* spans with and without marker classes and text, and a label.
GroupSpans ==
  << [cls |-> {"valu", "year"}, text |-> "2020"],
     [cls |-> {"valu", "year", "makemodel"}, text |-> "2019 Honda"],
     [cls |-> {"valu", "makemodel"}, text |-> "honda civic"],
     [cls |-> {"valu"}, text |-> " Odometer Broken "],
     [cls |-> {"valu", "year"}, text |-> ""],
     [cls |-> {"labl"}, text |-> "odometer broken"] >>

\* The most spans each of the two groups holds.
MaxGroupSpans == 2

GroupSpanChoices == UNION { [1..n -> 1..Len(GroupSpans)] : n \in 0..MaxGroupSpans }

\* The pages of one attribute group, with the spans it is made of.
OneGroupInputs ==
  { LET spans == [j \in 1..Len(ks) |-> AttrSpans[ks[j]]] IN
    [doc |-> AttrGroup(spans), parts |-> spans] : ks \in SpanChoices }

\* The pages of two attribute groups, one after the other.
TwoGroupInputs ==
  { [doc |-> WithBlock(AttrGroup([j \in 1..Len(ks[1]) |-> GroupSpans[ks[1][j]]]),
                       AttrGroup([j \in 1..Len(ks[2]) |-> GroupSpans[ks[2][j]]])),
     parts |-> <<>>] : ks \in GroupSpanChoices \X GroupSpanChoices }

ParseAttrGroup ==
  /\ ~detail_called
  /\ \E g \in OneGroupInputs \cup TwoGroupInputs, u \in DetailUrlInputs :
       ParseListingDetail(g.doc, u, g.parts)

\* ------------------------------------------------------------------------
\* The reference tools: get_locations, get_categories, get_listing_details
\* ------------------------------------------------------------------------

\* ord(c) of the printable characters, as a table.
OrdOf == [c \in CharsOf(AsciiLow) \cup CharsOf(AsciiHigh) |-> Ord(c)]

RECURSIVE StrLess(_, _)
\* a < b for two str: by code point, a proper prefix before the longer one.
StrLess(a, b) ==
  IF b = "" THEN FALSE
  ELSE IF a = "" THEN TRUE
  ELSE IF Head(a) = Head(b) THEN StrLess(Tail(a), Tail(b))
  ELSE OrdOf[Head(a)] < OrdOf[Head(b)]

RECURSIVE MergeByName(_, _)
RECURSIVE MergeAround(_, _, _, _)
\* Two sequences sorted by name made one; of equal names the left one's
\* entry comes first.
MergeByName(left, right) ==
  IF left = <<>> THEN right
  ELSE IF right = <<>> THEN left
  ELSE MergeAround(left, right, (Len(left) + 1) \div 2,
                   Len(SelectSeq(right,
                                 LAMBDA entry :
                                   StrLess(entry.name, left[(Len(left) + 1) \div 2].name))))

\* The merge around left[h], which the first p entries of right go before.
MergeAround(left, right, h, p) ==
  MergeByName(SubSeq(left, 1, h - 1), SubSeq(right, 1, p))
    \o <<left[h]>>
    \o MergeByName(SubSeq(left, h + 1, Len(left)), SubSeq(right, p + 1, Len(right)))

RECURSIVE SortedByName(_)
\* sorted(items, key=lambda x: x[1]): by display name, entries of equal
\* names in the order they came in.
SortedByName(items) ==
  IF Len(items) <= 1 THEN items
  ELSE MergeByName(SortedByName(SubSeq(items, 1, Len(items) \div 2)),
                   SortedByName(SubSeq(items, (Len(items) \div 2) + 1, Len(items))))

\* ft in k or ft in v.lower()
LocationMatches(ft, entry) == Contains(ft, entry.code) \/ Contains(ft, Lower(entry.name))

\* The dict get_locations filters LOCATIONS down to.
FilteredLocations(filter_text) ==
  IF Truthy(filter_text)
    THEN SelectSeq(LOCATIONS, LAMBDA entry : LocationMatches(Lower(Val(filter_text)), entry))
    ELSE LOCATIONS

\* get_locations without the sort: the entries in table order.
LocationsResponseUnsorted(filtered) ==
  [total |-> Len(filtered), locations |-> filtered]

\* The dict get_locations returns for the filtered table.
LocationsResponse(filtered) ==
  [total |-> Len(filtered), locations |-> SortedByName(filtered)]

\* get_locations(filter_text)
get_locations(filter_text) == LocationsResponse(FilteredLocations(filter_text))

\* get_categories(), table being the CATEGORIES dict as it is at the call.
get_categories(table) ==
  [total |-> Len(table),
   categories |-> [i \in 1..Len(table) |-> [code |-> table[i].code, name |-> table[i].name]]]

\* ------------------------------------------------------------------------
\* The MCP server: its four tools called one after the other
\* ------------------------------------------------------------------------

VARIABLES
  tool,              \* the tool other than search_craigslist that is being
                     \* called or has returned, "" when there is none
  tool_pc,           \* "idle"; "fetching": get_listing_details has invoked
                     \* _fetch_page; "returned": the tool has ended
  tool_url,          \* the url get_listing was called with
  tool_filter,       \* the filter_text list_locations was called with
  tool_response,     \* what the tool returned (ValueError when it raised)
  category_table,    \* the module-level CATEGORIES dict
  first_categories,  \* what the first list_categories call returned
  called_since       \* the tools called after that first call

serverVars ==
  <<tool, tool_pc, tool_url, tool_filter, tool_response, category_table,
    first_categories, called_since>>

ServerInit ==
  /\ tool = ""
  /\ tool_pc = "idle"
  /\ tool_url = ""
  /\ tool_filter = None
  /\ tool_response = NoResponse
  /\ category_table = CATEGORIES
  /\ first_categories = None
  /\ called_since = {}

\* No call of any tool is in progress.
ServerIdle == pc = "idle" /\ tool_pc = "idle"

\* The tool named name is called.
Called(name) ==
  called_since' = IF IsNone(first_categories) THEN {} ELSE called_since \cup {name}

\* get_listing(url), up to the _fetch_page of get_listing_details.
get_listing(listing_url) ==
  /\ ServerIdle
  /\ tool' = "get_listing"
  /\ tool_pc' = "fetching"
  /\ tool_url' = listing_url
  /\ Called("get_listing")
  /\ UNCHANGED <<tool_filter, tool_response, category_table, first_categories>>

\* _fetch_page returns the page, and get_listing_details what
\* _parse_listing_detail makes of it.
ListingPage(doc) ==
  /\ tool_pc = "fetching"
  /\ tool_pc' = "returned"
  /\ tool_response' = parse_listing_detail(doc, tool_url)
  /\ UNCHANGED <<tool, tool_url, tool_filter, category_table, first_categories,
                 called_since>>

\* _fetch_page raises httpx.HTTPStatusError.
ListingHTTPStatusError(status) ==
  /\ tool_pc = "fetching"
  /\ tool_pc' = "returned"
  /\ tool_response' = [error |-> "HTTP error " \o IntToStr(status[1]) \o ": " \o status[2],
                       url |-> tool_url]
  /\ UNCHANGED <<tool, tool_url, tool_filter, category_table, first_categories,
                 called_since>>

\* _fetch_page raises httpx.RequestError.
ListingRequestError(msg) ==
  /\ tool_pc = "fetching"
  /\ tool_pc' = "returned"
  /\ tool_response' = [error |-> "Request failed: " \o msg, url |-> tool_url]
  /\ UNCHANGED <<tool, tool_url, tool_filter, category_table, first_categories,
                 called_since>>

\* list_locations(filter_text)
list_locations(filter_text) ==
  /\ ServerIdle
  /\ tool' = "list_locations"
  /\ tool_pc' = "returned"
  /\ tool_filter' = filter_text
  /\ tool_response' = get_locations(filter_text)
  /\ Called("list_locations")
  /\ UNCHANGED <<tool_url, category_table, first_categories>>

\* list_categories() taking the first entry out of the table as it goes.
list_categories_popping ==
  /\ ServerIdle
  /\ tool' = "list_categories"
  /\ tool_pc' = "returned"
  /\ tool_response' = get_categories(category_table)
  /\ first_categories' = IF IsNone(first_categories)
                           THEN Some(get_categories(category_table))
                           ELSE first_categories
  /\ category_table' = Tail(category_table)
  /\ Called("list_categories")
  /\ UNCHANGED <<tool_url, tool_filter>>

\* list_categories()
list_categories ==
  /\ ServerIdle
  /\ tool' = "list_categories"
  /\ tool_pc' = "returned"
  /\ tool_response' = get_categories(category_table)
  /\ first_categories' = IF IsNone(first_categories)
                           THEN Some(get_categories(category_table))
                           ELSE first_categories
  /\ Called("list_categories")
  /\ UNCHANGED <<tool_url, tool_filter, category_table>>

\* The caller takes what the tool returned.
ToolReturn ==
  /\ tool_pc = "returned"
  /\ tool' = ""
  /\ tool_pc' = "idle"
  /\ tool_url' = ""
  /\ tool_filter' = None
  /\ tool_response' = NoResponse
  /\ UNCHANGED <<category_table, first_categories, called_since>>

\* The inputs the tools are exercised with.
FilterTextInputs ==
  {None, Some(""), Some("new york"), Some("CA"), Some(", tx"), Some("York"),
   Some("Bay"), Some("zzz")}

ServerLocationInputs == {"newyork", "zzz"}

ServerMaxInputs == {5}

\* The listing pages served: nothing, or one block of markup.
ListingPageChoices == UNION { [1..n -> 1..Len(DetailBlocks)] : n \in 0..1 }

SearchTool ==
  /\ ServerIdle
  /\ \E q \in QueryInputs, l \in ServerLocationInputs, m \in ServerMaxInputs :
       search_craigslist(CallArgs(q, l, "sss", NoArgs, m))
  /\ Called("search_craigslist")
  /\ UNCHANGED <<tool, tool_pc, tool_url, tool_filter, tool_response,
                 category_table, first_categories>>

\* ------------------------------------------------------------------------
\* Specifications
\* ------------------------------------------------------------------------

vars == <<searchVars, urlVars, extractVars, detailVars, serverVars>>

Init == SearchInit /\ UrlInit /\ ExtractInit /\ DetailInit /\ ServerInit

\* The search tool and the library function in use.
Next ==
  \/ ToolCall /\ UNCHANGED <<urlVars, extractVars, detailVars, serverVars>>
  \/ DirectCall /\ UNCHANGED <<urlVars, extractVars, detailVars, serverVars>>
  \/ PageFetched /\ UNCHANGED <<urlVars, extractVars, detailVars, serverVars>>
  \/ PageHTTPError /\ UNCHANGED <<urlVars, extractVars, detailVars, serverVars>>
  \/ PageRequestError /\ UNCHANGED <<urlVars, extractVars, detailVars, serverVars>>
  \/ Return /\ UNCHANGED <<urlVars, extractVars, detailVars, serverVars>>

Spec == Init /\ [][Next]_vars

\* _fetch_page is a blocking call made with a timeout: it raises or returns
\* the page.
FetchEnds ==
  /\ PageRequestError \/ PageHTTPError \/ PageFetched
  /\ UNCHANGED <<urlVars, extractVars, detailVars, serverVars>>

\* The search tool and the library function in use, every _fetch_page call
\* coming to an end.
FairSpec == Init /\ [][Next]_vars /\ WF_vars(FetchEnds)

\* The URL Builder in use.
UrlNext ==
  \/ BuildForPair /\ UNCHANGED <<searchVars, extractVars, detailVars, serverVars>>
  \/ BuildWithOptions /\ UNCHANGED <<searchVars, extractVars, detailVars, serverVars>>
  \/ TakeUrl /\ UNCHANGED <<searchVars, extractVars, detailVars, serverVars>>

UrlSpec == Init /\ [][UrlNext]_vars

\* The Result-Set Extractor in use.
ExtractNext ==
  \/ ParseBlocks /\ UNCHANGED <<searchVars, urlVars, detailVars, serverVars>>
  \/ ParseAnchorNode /\ UNCHANGED <<searchVars, urlVars, detailVars, serverVars>>
  \/ ParseLinks /\ UNCHANGED <<searchVars, urlVars, detailVars, serverVars>>
  \/ TakeResults /\ UNCHANGED <<searchVars, urlVars, detailVars, serverVars>>

ExtractSpec == Init /\ [][ExtractNext]_vars

\* The Detail Extractor in use.
DetailNext ==
  \/ ParseDetailBlocks /\ UNCHANGED <<searchVars, urlVars, extractVars, serverVars>>
  \/ ParseAttrGroup /\ UNCHANGED <<searchVars, urlVars, extractVars, serverVars>>
  \/ TakeDetail /\ UNCHANGED <<searchVars, urlVars, extractVars, serverVars>>

DetailSpec == Init /\ [][DetailNext]_vars

\* The server in use: one tool call at a time.
ServerNext ==
  \/ SearchTool /\ UNCHANGED <<urlVars, extractVars, detailVars>>
  \/ PageFetched /\ UNCHANGED <<urlVars, extractVars, detailVars, serverVars>>
  \/ PageHTTPError /\ UNCHANGED <<urlVars, extractVars, detailVars, serverVars>>
  \/ PageRequestError /\ UNCHANGED <<urlVars, extractVars, detailVars, serverVars>>
  \/ Return /\ UNCHANGED <<urlVars, extractVars, detailVars, serverVars>>
  \/ (\E u \in DetailUrlInputs : get_listing(u))
       /\ UNCHANGED <<searchVars, urlVars, extractVars, detailVars>>
  \/ (\E ks \in ListingPageChoices : ListingPage(DetailDocOf(ks)))
       /\ UNCHANGED <<searchVars, urlVars, extractVars, detailVars>>
  \/ (\E s \in HTTPStatusInputs : ListingHTTPStatusError(s))
       /\ UNCHANGED <<searchVars, urlVars, extractVars, detailVars>>
  \/ (\E m \in RequestErrorInputs : ListingRequestError(m))
       /\ UNCHANGED <<searchVars, urlVars, extractVars, detailVars>>
  \/ (\E f \in FilterTextInputs : list_locations(f))
       /\ UNCHANGED <<searchVars, urlVars, extractVars, detailVars>>
  \/ list_categories /\ UNCHANGED <<searchVars, urlVars, extractVars, detailVars>>
  \/ ToolReturn /\ UNCHANGED <<searchVars, urlVars, extractVars, detailVars>>

ServerSpec == Init /\ [][ServerNext]_vars

\* ------------------------------------------------------------------------
\* Properties of the Search Orchestrator
\* ------------------------------------------------------------------------

Last(s) == s[Len(s)]

Max(a, b) == IF a > b THEN a ELSE b

IsError(r) == "error" \in DOMAIN r

IsSuccess(r) == "results" \in DOMAIN r

IsUnknownLocation(r) == IsError(r) /\ StartsWith(r.error, "Unknown location")

IsUnknownCategory(r) == IsError(r) /\ StartsWith(r.error, "Unknown category")

RECURSIVE ExtractedUpTo(_)
\* The concatenation, in fetch order, of the results extracted from the first
\* k pages served.
ExtractedUpTo(k) ==
  IF k = 0 THEN <<>>
  ELSE ExtractedUpTo(k - 1)
         \o (IF served[k].kind = "page" THEN PageOf(served[k].n, k) ELSE <<>>)

Extracted == ExtractedUpTo(Len(served))

\* C1: a call that ends with an "Unknown location" or "Unknown category"
\* payload has invoked _fetch_page zero times, and the payload carries a
\* suggestion string.
C1_ValidatedBeforeFetch ==
  (pc = "returned" /\ (IsUnknownLocation(response) \/ IsUnknownCategory(response)))
    => /\ fetched = <<>>
       /\ served = <<>>
       /\ "suggestion" \in DOMAIN response
       /\ response.suggestion /= ""

C1_Witness ==
  /\ pc = "returned"
  /\ IsUnknownCategory(response)
  /\ args.category = "cars"
  /\ loc = "sfbay"

\* C2: when a fetch of the loop raises a transport or HTTP-status error, at
\* whatever iteration, the call returns a payload of exactly the error text
\* and the URL of that fetch (no results, no result_count), and that fetch is
\* the last one of the call: every fetch before it gave a page.
C2_FetchFailureAborts ==
  /\ \A i \in 1..(Len(served) - 1) : served[i].kind = "page"
  /\ (served /= <<>> /\ Last(served).kind /= "page")
       => /\ pc = "returned"
          /\ Len(fetched) = Len(served)
          /\ DOMAIN response = {"error", "url"}
          /\ response.url = Last(fetched)
          /\ \/ StartsWith(response.error, "HTTP error ")
             \/ StartsWith(response.error, "Request failed: ")

C2_Witness ==
  /\ pc = "returned"
  /\ Len(served) = 3
  /\ Last(served).kind = "HTTPStatusError"
  /\ Len(all_results) = 41
  /\ response.url = fetched[3]
  /\ response.url /= fetched[1]

\* C3: after a successful fetch the loop has stopped exactly when the
\* accumulated count is >= max_results, or the page gave zero results, or the
\* page gave fewer than 20 results; otherwise another fetch has been issued.
\* A page of zero results leaves the accumulation as it was, a short page is
\* appended before the stop.
C3_LoopStopsExactlyWhen ==
  (served /= <<>> /\ Last(served).kind = "page")
    => LET n     == Last(served).n
           accum == Len(Extracted)
       IN  IF accum >= args.max_results \/ n = 0 \/ n < 20
             THEN /\ pc = "returned"
                  /\ Len(fetched) = Len(served)
                  /\ IsSuccess(response)
                  /\ n = 0 => response.results = ExtractedUpTo(Len(served) - 1)
                  /\ (n > 0 /\ accum < args.max_results)
                       => response.results = Extracted
             ELSE /\ pc = "fetching"
                  /\ Len(fetched) = Len(served) + 1
                  /\ all_results = Extracted

\* A short page stops the loop below the requested count.
C3_Witness ==
  /\ pc = "returned"
  /\ Len(served) = 2
  /\ served[1].n = 20
  /\ served[2].kind = "page" /\ served[2].n = 8
  /\ args.max_results = 45
  /\ response.result_count = 28

\* C4 as stated: the results are the first min(max_results, N) of the N
\* extracted, result_count is their number and never exceeds max_results,
\* and location_name is the display name of the resolved code.
C4_AsStated ==
  (pc = "returned" /\ IsSuccess(response))
    => LET N == Len(Extracted) IN
       /\ response.results = SubSeq(Extracted, 1, Min(args.max_results, N))
       /\ response.result_count = Len(response.results)
       /\ response.result_count <= args.max_results
       /\ \E i \in 1..Len(LOCATIONS) :
            /\ LOCATIONS[i].code = response.location
            /\ LOCATIONS[i].name = response.location_name

\* C4, amended: the results are the first min(max_results, N) of the N
\* extracted (none when max_results is negative), result_count is their
\* number and never exceeds max_results when max_results >= 0, and
\* location_name is the display name of the resolved code; a page of 8 with
\* max_results = 5 gives 5 results, and "newyork" gives "New York City, NY".
C4_TruncatedConcatenation ==
  (pc = "returned" /\ IsSuccess(response))
    => LET N == Len(Extracted)
           k == Max(0, Min(args.max_results, N))
       IN  /\ response.results = SubSeq(Extracted, 1, k)
           /\ response.result_count = k
           /\ response.result_count = Len(response.results)
           /\ args.max_results >= 0 => response.result_count <= args.max_results
           /\ response.location = loc
           /\ \E i \in 1..Len(LOCATIONS) :
                /\ LOCATIONS[i].code = response.location
                /\ LOCATIONS[i].name = response.location_name
           /\ args.location = "newyork"
                => response.location_name = "New York City, NY"
           /\ (served = << [kind |-> "page", n |-> 8] >> /\ args.max_results = 5)
                => response.result_count = 5

C4_Witness ==
  /\ pc = "returned"
  /\ IsSuccess(response)
  /\ args.query = "couch"
  /\ args.location = "newyork"
  /\ args.max_results = 5
  /\ served = << [kind |-> "page", n |-> 8] >>
  /\ response.result_count = 5
  /\ response.results = PageOf(5, 1)
  /\ response.location_name = "New York City, NY"

\* C5: search_craigslist passes min(max_results, 120) to the orchestrator,
\* whatever max_results its caller gave, and a successful response holds at
\* most 120 results.
C5_ToolCapsAt120 ==
  (pc /= "idle" /\ ~IsNone(requested))
    => /\ args.max_results = Min(Val(requested), 120)
       /\ IsSuccess(response)
            => /\ Len(response.results) <= 120
               /\ response.result_count <= 120

C5_Witness ==
  /\ pc = "returned"
  /\ requested = Some(121)
  /\ IsSuccess(response)
  /\ response.result_count = 120
  /\ Len(Extracted) > 120

\* Entry i of the location table contains l in its code or in its
\* lower-cased display name.
LocationContains(l, i) ==
  Contains(l, LOCATIONS[i].code) \/ Contains(l, Lower(LOCATIONS[i].name))

\* What the location lookup is to give for each input: the lower-cased,
\* trimmed input when it is a code; else the code of the first entry in table
\* order that contains it; else nothing.
ExpectedLocation ==
  [x \in LocationInputs |->
     LET l == Strip(Lower(x))
         n == Len(LOCATIONS)
     IN  IF \E i \in 1..n : LOCATIONS[i].code = l THEN Some(l)
         ELSE IF \E i \in 1..n : LocationContains(l, i)
           THEN Some(LOCATIONS[CHOOSE i \in 1..n :
                                 /\ LocationContains(l, i)
                                 /\ \A j \in 1..(i - 1) : ~LocationContains(l, j)].code)
         ELSE None]

\* C6: the location is lower-cased and trimmed; an exact code is used as it
\* is; otherwise the first entry in table order whose code or lower-cased
\* name contains the input is taken; with no such entry the call fails with
\* the unknown-location payload.  "NYC" is unmatched, "san fran" gives the
\* San Francisco Bay Area entry, and "bay" the first entry holding "bay"
\* (Monterey Bay), not the closest one.
C6_LocationResolution ==
  pc /= "idle"
    => LET e == ExpectedLocation[args.location] IN
       /\ IF IsNone(e)
            THEN pc = "returned" /\ IsUnknownLocation(response) /\ fetched = <<>>
            ELSE /\ loc = Val(e)
                 /\ ~IsUnknownLocation(response)
                 /\ IsSuccess(response) => response.location = Val(e)
       /\ args.location = "NYC" => IsUnknownLocation(response)
       /\ args.location = "san fran"
            => loc = "sfbay" /\ Lookup(LOCATIONS, loc) = "San Francisco Bay Area, CA"
       /\ args.location = " SFBay " => loc = "sfbay"
       /\ args.location = "bay" => loc = "monterey"

C6_Witness ==
  /\ pc = "returned"
  /\ args.location = "san fran"
  /\ IsSuccess(response)
  /\ response.location = "sfbay"
  /\ response.location_name = "San Francisco Bay Area, CA"

\* C7: a category that, lower-cased and trimmed, is not a code of the
\* category table never leads to a fetch: the call returns an error payload,
\* the unknown-category one whenever the location resolved, also when the
\* input is a substring of a code ("ss") or of a display name ("cars").
C7_CategoryExactMatchOnly ==
  (pc /= "idle" /\ ~HasKey(CATEGORIES, Strip(Lower(args.category))))
    => /\ pc = "returned"
       /\ fetched = <<>>
       /\ IsUnknownLocation(response) \/ IsUnknownCategory(response)
       /\ ~IsNone(ExpectedLocation[args.location]) => IsUnknownCategory(response)

C7_Witness ==
  /\ pc = "returned"
  /\ args.category = "ss"
  /\ args.location = "newyork"
  /\ IsUnknownCategory(response)
  /\ fetched = <<>>
  /\ \E i \in 1..Len(CATEGORIES) : Contains("ss", CATEGORIES[i].code)

\* The location of the call is empty once lower-cased and trimmed.
BlankLocation == Strip(Lower(args.location)) = ""

\* C24: a location that is empty after lower-casing and trimming is never
\* rejected as an unknown location: the empty string is a substring of every
\* code, so the location becomes the first entry of the location table
\* ("auburn"), and the search goes on with it: with an accepted category and
\* max_results > 0 the first page is fetched from that site, and a success
\* envelope names that location.
C24_BlankLocationIsFirstEntry ==
  (pc /= "idle" /\ BlankLocation)
    => /\ \A i \in 1..Len(LOCATIONS) : Contains("", LOCATIONS[i].code)
       /\ ~IsUnknownLocation(response)
       /\ loc = LOCATIONS[1].code
       /\ loc = "auburn"
       /\ (HasKey(CATEGORIES, Strip(Lower(args.category))) /\ args.max_results > 0)
            => /\ fetched /= <<>>
               /\ \A k \in 1..Len(fetched) :
                    StartsWith(fetched[k], "https://auburn.craigslist.org/search/")
       /\ IsSuccess(response)
            => /\ response.location = "auburn"
               /\ response.location_name = "Auburn, AL"

\* A location of blanks: the first page is being fetched from the site of
\* the first table entry.
C24_Witness ==
  /\ pc = "fetching"
  /\ args.location = "  "
  /\ BlankLocation
  /\ loc = "auburn"
  /\ Len(fetched) = 1
  /\ StartsWith(fetched[1], "https://auburn.craigslist.org/search/")

\* The same for the empty string, the call returned with its results.
C24_EmptyString ==
  /\ pc = "returned"
  /\ args.location = ""
  /\ IsSuccess(response)
  /\ response.location = "auburn"
  /\ response.result_count > 0

\* ------------------------------------------------------------------------
\* Properties of the URL Builder
\* ------------------------------------------------------------------------

RECURSIVE Split(_, _)
\* s.split(c)
Split(s, c) ==
  LET i == IndexFrom(s, c, 1) IN
  IF i = 0 THEN <<s>>
  ELSE <<SubSeq(s, 1, i - 1)>> \o Split(SubSeq(s, i + 1, Len(s)), c)

\* chr(n) for printable ASCII
Chr(n) == IF n <= 95 THEN Char(AsciiLow, n - 31) ELSE Char(AsciiHigh, n - 96)

HexValue(c) == (CHOOSE i \in 1..16 : Char(HexDigits, i) = c) - 1

RECURSIVE UnquotePlus(_)
\* urllib.parse.unquote_plus
UnquotePlus(s) ==
  IF s = "" THEN ""
  ELSE IF Head(s) = "+" THEN " " \o UnquotePlus(Tail(s))
  ELSE IF Head(s) = "%"
    THEN Chr(16 * HexValue(Char(s, 2)) + HexValue(Char(s, 3)))
           \o UnquotePlus(SubSeq(s, 4, Len(s)))
  ELSE Head(s) \o UnquotePlus(Tail(s))

\* urlparse(u): what follows the scheme, cut into host, path and query.
UrlRest(u) == SubSeq(u, Len("https://") + 1, Len(u))

UrlHost(u) == SubSeq(UrlRest(u), 1, IndexFrom(UrlRest(u), "/", 1) - 1)

UrlPath(u) ==
  LET r == UrlRest(u)
      q == IndexFrom(r, "?", 1)
  IN  SubSeq(r, IndexFrom(r, "/", 1), IF q = 0 THEN Len(r) ELSE q - 1)

UrlHasQuery(u) == IndexFrom(u, "?", 1) /= 0

UrlQuery(u) ==
  LET q == IndexFrom(u, "?", 1) IN
  IF q = 0 THEN "" ELSE SubSeq(u, q + 1, Len(u))

\* The key=value parts of the query string of u, in order.
UrlQueryParts(u) == IF UrlQuery(u) = "" THEN <<>> ELSE Split(UrlQuery(u), "&")

\* The key and the value of one part, unquoted.
PartKey(part) == UnquotePlus(SubSeq(part, 1, IndexFrom(part, "=", 1) - 1))

PartValue(part) == UnquotePlus(SubSeq(part, IndexFrom(part, "=", 1) + 1, Len(part)))

PairsOf(parts) == [i \in 1..Len(parts) |-> <<PartKey(parts[i]), PartValue(parts[i])>>]

KeysOf(parts) == { PartKey(parts[i]) : i \in 1..Len(parts) }

ValueIn(parts, key) ==
  PartValue(parts[CHOOSE k \in 1..Len(parts) : PartKey(parts[k]) = key])

\* parse_qsl(query): the (key, value) pairs in order, unquoted.
UrlQueryPairs(u) == PairsOf(UrlQueryParts(u))

UrlQueryKeys(u) == KeysOf(UrlQueryParts(u))

\* The query parameter each optional input of the builder is sent as.
OptionalFields ==
  { <<"query", "query">>, <<"min_price", "min_price">>,
    <<"max_price", "max_price">>, <<"sort_by", "sort">>,
    <<"has_image", "hasPic">>, <<"posted_today", "postedToday">>,
    <<"bundle_duplicates", "bundleDuplicates">>,
    <<"search_distance", "search_distance">>, <<"postal_code", "postal">>,
    <<"offset", "s">> }

\* The parameters of the optional inputs the caller passed.
PassedParams(kw) == { f[2] : f \in { g \in OptionalFields : ~IsNone(kw[g[1]]) } }

\* The parameters the builder is to send for the arguments a (defaults filled
\* in), with the value of each.
DueParams(a) ==
       (IF ~IsNone(a.query) /\ Val(a.query) /= ""
          THEN { <<"query", Val(a.query)>> } ELSE {})
  \cup (IF ~IsNone(a.min_price)
          THEN { <<"min_price", IntToStr(Val(a.min_price))>> } ELSE {})
  \cup (IF ~IsNone(a.max_price)
          THEN { <<"max_price", IntToStr(Val(a.max_price))>> } ELSE {})
  \cup (IF ~IsNone(a.sort_by)
             /\ Val(a.sort_by) \in {"relevant", "date", "priceasc", "pricedsc"}
          THEN { <<"sort", Val(a.sort_by)>> } ELSE {})
  \cup (IF a.has_image THEN { <<"hasPic", "1">> } ELSE {})
  \cup (IF a.posted_today THEN { <<"postedToday", "1">> } ELSE {})
  \cup (IF a.bundle_duplicates THEN { <<"bundleDuplicates", "1">> } ELSE {})
  \cup (IF ~IsNone(a.search_distance)
          THEN { <<"search_distance", IntToStr(Val(a.search_distance))>> } ELSE {})
  \cup (IF ~IsNone(a.postal_code) /\ Val(a.postal_code) /= ""
          THEN { <<"postal", Val(a.postal_code)>> } ELSE {})
  \cup (IF a.offset > 0 THEN { <<"s", IntToStr(a.offset)>> } ELSE {})

\* C8 as stated: the path is /search/{category} and the query parameters are
\* exactly those of the optional inputs the caller provided.
C8_AsStated ==
  build_kwargs /= NoKwargs
    => /\ UrlPath(built_url) = "/search/" \o BuildArgs(build_kwargs).category
       /\ UrlQueryKeys(built_url) = PassedParams(build_kwargs)

\* C8, amended: the path is /search/{category}, the host is that of the
\* location, and the query parameters are, each once and with its value,
\* exactly those of: a non-empty query or postal code, a min_price, max_price
\* or search_distance that is not None, a sort_by of the sort enumeration, a
\* flag that is true (bundle_duplicates is true unless passed false), and an
\* offset > 0.  There is a query string only when there is a parameter.
C8_PathAndParameterSet ==
  build_kwargs /= NoKwargs
    => LET a     == BuildArgs(build_kwargs)
           pairs == UrlQueryPairs(built_url)
       IN  /\ StartsWith(built_url, "https://")
           /\ UrlHost(built_url) = a.location \o ".craigslist.org"
           /\ UrlPath(built_url) = "/search/" \o a.category
           /\ { pairs[i] : i \in 1..Len(pairs) } = DueParams(a)
           /\ Len(pairs) = Cardinality(DueParams(a))
           /\ UrlHasQuery(built_url) <=> DueParams(a) /= {}

C8_Witness ==
  /\ build_kwargs /= NoKwargs
  /\ build_kwargs.query = Some("mountain bike & co=1")
  /\ build_kwargs.min_price = Some(0)
  /\ build_kwargs.sort_by = Some("date")
  /\ build_kwargs.bundle_duplicates = Some(FALSE)
  /\ build_kwargs.postal_code = Some("10001")
  /\ build_kwargs.offset = Some(20)
  /\ UrlQueryKeys(built_url) = {"query", "min_price", "sort", "postal", "s"}
  /\ UrlPath(built_url) = "/search/cta"

\* ------------------------------------------------------------------------
\* Properties of the Result-Set Extractor
\* ------------------------------------------------------------------------

\* No element of doc is matched by one of the four structural selectors.
NoStructuralNode(doc) ==
  \A j \in 1..Len(doc) :
    /\ ~(doc[j].tag = "li" /\ "cl-static-search-result" \in doc[j].cls)
    /\ ~(doc[j].tag = "div" /\ "result-row" \in doc[j].cls)
    /\ ~(doc[j].tag = "li" /\ "cl-search-result" \in doc[j].cls)
    /\ "result-info" \notin doc[j].cls

\* The anchors of doc whose href matches the listing-URL pattern, in document
\* order.
PatternAnchors(doc) ==
  SelectSeq(Indices(doc),
            LAMBDA j : /\ doc[j].tag = "a"
                       /\ ~IsNone(doc[j].attrs.href)
                       /\ ListingPattern(Val(doc[j].attrs.href)))

\* The absolute URL the href of anchor j stands for.
AnchorUrl(doc, j, location) ==
  IF StartsWith(Val(doc[j].attrs.href), "http")
    THEN Val(doc[j].attrs.href)
    ELSE "https://" \o location \o ".craigslist.org" \o Val(doc[j].attrs.href)

\* Of those anchors, the first one in document order for each URL.
FirstAnchors(doc, location) ==
  SelectSeq(PatternAnchors(doc),
            LAMBDA j : \A k \in 1..(j - 1) :
                         (doc[k].tag = "a" /\ ~IsNone(doc[k].attrs.href)
                            /\ ListingPattern(Val(doc[k].attrs.href)))
                           => AnchorUrl(doc, k, location) /= AnchorUrl(doc, j, location))

FallbackCase ==
  /\ parse_called
  /\ NoStructuralNode(parse_doc)
  /\ PatternAnchors(parse_doc) /= <<>>

\* C9 as stated: with no structurally recognizable node and at least one
\* anchor of the listing-URL pattern, the extractor returns one record per
\* distinct resolved URL, in document order of each URL's first occurrence,
\* each without neighborhood, date and thumbnail.
C9_AsStated ==
  FallbackCase
    => LET first == FirstAnchors(parse_doc, parse_location) IN
       /\ Len(parse_results) = Len(first)
       /\ \A i \in 1..Len(parse_results) :
            /\ parse_results[i].url = AnchorUrl(parse_doc, first[i], parse_location)
            /\ IsNone(parse_results[i].neighborhood)
            /\ IsNone(parse_results[i].date)
            /\ IsNone(parse_results[i].thumbnail)

\* C9, amended: ... the extractor returns one record per distinct resolved
\* URL whose first anchor in document order has a visible text of at least 3
\* characters, in document order of those first anchors, no URL twice, each
\* with that text as title and without neighborhood, date and thumbnail.
C9_FallbackDeduplicated ==
  FallbackCase
    => LET kept == SelectSeq(FirstAnchors(parse_doc, parse_location),
                             LAMBDA j : Len(TextOf(parse_doc, j, TRUE)) >= 3)
       IN  /\ Len(parse_results) = Len(kept)
           /\ \A i \in 1..Len(parse_results) :
                /\ parse_results[i].url = AnchorUrl(parse_doc, kept[i], parse_location)
                /\ parse_results[i].title = TextOf(parse_doc, kept[i], TRUE)
                /\ IsNone(parse_results[i].neighborhood)
                /\ IsNone(parse_results[i].date)
                /\ IsNone(parse_results[i].thumbnail)
           /\ \A i, k \in 1..Len(parse_results) :
                i /= k => parse_results[i].url /= parse_results[k].url

\* Two anchors of one listing and one of another: two records.
C9_Witness ==
  /\ FallbackCase
  /\ Len(PatternAnchors(parse_doc)) = 3
  /\ Len(parse_results) = 2
  /\ parse_results[1].title = "Mountain Bike"
  /\ parse_results[1].price = Some("$150")
  /\ parse_results[2].title = "Comfy Couch"

\* The anchor k of doc is a listing link to the URL of the anchor j.
SameListing(doc, location, j, k) ==
  /\ doc[k].tag = "a"
  /\ ~IsNone(doc[k].attrs.href)
  /\ ListingPattern(Val(doc[k].attrs.href))
  /\ AnchorUrl(doc, k, location) = AnchorUrl(doc, j, location)

\* The records returned for the URL of the anchor j.
RecordsOf(j) ==
  SelectSeq(parse_results,
            LAMBDA r : r.url = AnchorUrl(parse_doc, j, parse_location))

\* A listing link after the anchor j to the same URL has a text of at least
\* 3 characters.
LaterValidLink(j) ==
  \E k \in (j + 1)..Len(parse_doc) :
    /\ SameListing(parse_doc, parse_location, j, k)
    /\ Len(TextOf(parse_doc, k, TRUE)) >= 3

\* C23: in the link-pattern fallback the first anchor in document order of
\* a resolved URL decides for that URL: when its text, stripped, is empty or
\* shorter than 3 characters, no record of the output has that URL, whatever
\* the text of the later anchors to the same URL; otherwise the one record
\* of that URL has the first anchor's text as its title.
C23_FirstAnchorDecides ==
  FallbackCase
    => \A i \in 1..Len(FirstAnchors(parse_doc, parse_location)) :
         LET j == FirstAnchors(parse_doc, parse_location)[i] IN
         IF Len(TextOf(parse_doc, j, TRUE)) < 3
           THEN RecordsOf(j) = <<>>
           ELSE /\ Len(RecordsOf(j)) = 1
                /\ RecordsOf(j)[1].title = TextOf(parse_doc, j, TRUE)

\* A link without text, then one of two characters, then one with a title,
\* all to one listing: nothing is returned.
C23_Witness ==
  /\ FallbackCase
  /\ Len(parse_doc) = 3
  /\ FirstAnchors(parse_doc, parse_location) = <<1>>
  /\ TextOf(parse_doc, 1, TRUE) = ""
  /\ TextOf(parse_doc, 2, TRUE) = "ab"
  /\ TextOf(parse_doc, 3, TRUE) = "Oak Desk"
  /\ LaterValidLink(1)
  /\ parse_results = <<>>

\* The same with the link of two characters first.
C23_ShortFirst ==
  /\ FallbackCase
  /\ FirstAnchors(parse_doc, parse_location) = <<1>>
  /\ TextOf(parse_doc, 1, TRUE) = "ab"
  /\ LaterValidLink(1)
  /\ parse_results = <<>>

\* C10: a listing node that holds nothing but one anchor of the text
\* "<title> $<amount>(<hood>)" gives title = the text before the dollar
\* amount, price = the dollar amount, neighborhood = the text after it without
\* its parentheses.
C10_AnchorTextRecovery ==
  (/\ parse_called
   /\ anchor_parts /= <<>>
   /\ anchor_parts[1] /= ""
   /\ StartsWith(anchor_parts[3], "(")
   /\ Char(anchor_parts[3], Len(anchor_parts[3])) = ")")
    => /\ Len(parse_results) = 1
       /\ parse_results[1].title = anchor_parts[1]
       /\ parse_results[1].price = Some(anchor_parts[2])
       /\ parse_results[1].neighborhood
            = Some(SubSeq(anchor_parts[3], 2, Len(anchor_parts[3]) - 1))

\* Where the parameter s of the URL u starts, 0 when it has none.
OffsetStart(u) ==
  LET starts == { i \in 1..(Len(u) - 2) : SubSeq(u, i, i + 2) \in {"?s=", "&s="} } IN
  IF starts = {} THEN 0 ELSE CHOOSE i \in starts : \A j \in starts : i <= j

\* C17: the url of a successful search response carries no offset parameter,
\* is the URL of the first fetch of the call when a fetch was made, and so
\* does not depend on how many pages were fetched: every later fetch used a
\* URL that differs from it.
C17_CanonicalUrl ==
  (pc = "returned" /\ IsSuccess(response))
    => /\ OffsetStart(response.url) = 0
       /\ UrlPath(response.url) = "/search/" \o response.category
       /\ UrlHost(response.url) = response.location \o ".craigslist.org"
       /\ fetched /= <<>> => response.url = fetched[1]
       /\ \A k \in 2..Len(fetched) :
            /\ fetched[k] /= response.url
            /\ OffsetStart(fetched[k]) /= 0

\* Three pages were fetched, and the response shows the URL of the first.
C17_Witness ==
  /\ pc = "returned"
  /\ IsSuccess(response)
  /\ Len(fetched) = 3
  /\ response.result_count = 45
  /\ response.url = fetched[1]

\* The value of the query parameter named key in the URL u.
UrlParam(u, key) == ValueIn(UrlQueryParts(u), key)

\* C18: a parameter of the search URL is there only if its input is: query,
\* min_price, max_price, postal and search_distance only if provided, with
\* the provided value; sort only if sort_by is one of the known sort options;
\* hasPic, postedToday and bundleDuplicates only if their flag is true, and
\* then with the value 1, bundle_duplicates being true when left out; s only
\* if offset > 0; and the URL has a query string only if it has a parameter.
C18_ParameterPresenceRules ==
  build_kwargs /= NoKwargs
    => LET kw    == build_kwargs
           parts == UrlQueryParts(built_url)
       IN  /\ \A i \in 1..Len(parts) :
                LET key   == PartKey(parts[i])
                    value == PartValue(parts[i])
                IN  CASE key = "query" -> ~IsNone(kw.query) /\ value = Val(kw.query)
                      [] key = "min_price" ->
                           ~IsNone(kw.min_price) /\ value = IntToStr(Val(kw.min_price))
                      [] key = "max_price" ->
                           ~IsNone(kw.max_price) /\ value = IntToStr(Val(kw.max_price))
                      [] key = "postal" ->
                           ~IsNone(kw.postal_code) /\ value = Val(kw.postal_code)
                      [] key = "search_distance" ->
                           /\ ~IsNone(kw.search_distance)
                           /\ value = IntToStr(Val(kw.search_distance))
                      [] key = "sort" ->
                           /\ ~IsNone(kw.sort_by)
                           /\ Val(kw.sort_by) \in {"relevant", "date", "priceasc", "pricedsc"}
                           /\ value = Val(kw.sort_by)
                      [] key = "hasPic" -> kw.has_image = Some(TRUE) /\ value = "1"
                      [] key = "postedToday" -> kw.posted_today = Some(TRUE) /\ value = "1"
                      [] key = "bundleDuplicates" ->
                           kw.bundle_duplicates \in {None, Some(TRUE)} /\ value = "1"
                      [] key = "s" ->
                           /\ ~IsNone(kw.offset)
                           /\ Val(kw.offset) > 0
                           /\ value = IntToStr(Val(kw.offset))
                      [] OTHER -> FALSE
           /\ IsNone(kw.bundle_duplicates)
                => \E i \in 1..Len(parts) : PartKey(parts[i]) = "bundleDuplicates"
           /\ UrlHasQuery(built_url) => parts /= <<>>

\* An unknown sort option, an empty postal code and offset 0 were passed
\* along with has_image, and only hasPic made it into the URL.
C18_Witness ==
  /\ build_kwargs /= NoKwargs
  /\ build_kwargs.sort_by = Some("bogus")
  /\ build_kwargs.postal_code = Some("")
  /\ build_kwargs.offset = Some(0)
  /\ build_kwargs.has_image = Some(TRUE)
  /\ build_kwargs.bundle_duplicates = Some(FALSE)
  /\ UrlQueryKeys(built_url) = {"hasPic"}
  /\ built_url = "https://sfbay.craigslist.org/search/cta?hasPic=1"

\* The offset a fetched URL asks for: its s parameter, 0 when it has none.
RECURSIVE DigitsValue(_)
DigitsValue(s) ==
  IF s = "" THEN 0
  ELSE 10 * DigitsValue(SubSeq(s, 1, Len(s) - 1))
         + (CHOOSE d \in 0..9 : Char(Digits, d + 1) = Char(s, Len(s)))

\* The digits of the parameter that starts at index start of u.
OffsetDigits(u, start) ==
  SubSeq(u, start + 3,
         IF IndexFrom(u, "&", start + 3) = 0 THEN Len(u)
         ELSE IndexFrom(u, "&", start + 3) - 1)

\* The offset the URL u asks for: its parameter s, 0 when it has none.
UrlOffset(u) ==
  LET start == OffsetStart(u) IN
  IF start = 0 THEN 0 ELSE DigitsValue(OffsetDigits(u, start))

RECURSIVE SumPages(_, _)
\* The number of results of the first k fetches of the call.
SumPages(pages, k) == IF k = 0 THEN 0 ELSE SumPages(pages, k - 1) + pages[k].n

\* C19: the first fetch of a call asks for offset 0, every fetch asks for
\* the offset that equals the number of results of all pages fetched before
\* it, which is the number accumulated so far, and the offsets of the
\* fetches of one call are strictly increasing.
C19_OffsetIsAccumulatedCount ==
  /\ \A k \in 1..Len(fetched) :
       LET asked == UrlOffset(fetched[k]) IN
       /\ k <= Len(served) + 1
       /\ asked = SumPages(served, k - 1)
       /\ k > 1 => SumPages(served, k - 2) < asked
  /\ pc = "fetching"
       => /\ offset = Len(all_results)
          /\ UrlOffset(url) = offset
          /\ url = fetched[Len(fetched)]

\* A third fetch, after pages of 20 and 21 results, asks for offset 41.
C19_Witness ==
  /\ pc = "fetching"
  /\ Len(fetched) = 3
  /\ served[1].n = 20 /\ served[2].n = 21
  /\ UrlOffset(fetched[3]) = 41
  /\ Len(all_results) = 41

\* The least number of pages of 20 that hold n summaries: ceil(n / 20) for
\* n > 0, and none for n <= 0.
PagesFor(n) == IF n <= 0 THEN 0 ELSE (n + 19) \div 20

\* The location and the category of the call are accepted.
CallAccepted ==
  /\ ~IsNone(ExpectedLocation[args.location])
  /\ HasKey(CATEGORIES, Strip(Lower(args.category)))

\* The fetches of a call are never more than ceil(max_results / 20), and
\* never more than 6 when the call came through search_craigslist; a call
\* with max_results <= 0 has returned without a fetch, and when its location
\* and category are accepted, with a success envelope of no results.
FetchesBounded ==
  pc /= "idle"
    => /\ Len(fetched) <= PagesFor(args.max_results)
       /\ ~IsNone(requested) => Len(fetched) <= 6
       /\ args.max_results <= 0
            => /\ pc = "returned"
               /\ fetched = <<>>
               /\ served = <<>>
               /\ CallAccepted
                    => /\ IsSuccess(response)
                       /\ response.result_count = 0
                       /\ response.results = <<>>

\* C22: given that every fetch returns or fails, a search call terminates:
\* a call waiting for a page comes to its return.  It issues at most
\* ceil(max_results / 20) fetches, so at most 6 through the search tool,
\* whose cap is 120.  With max_results <= 0 it issues no fetch and, the
\* location and the category being accepted, returns a success envelope
\* with result_count 0 and an empty result list.
C22_TerminatesWithinFetchBound ==
  /\ []FetchesBounded
  /\ (pc = "fetching") ~> (pc = "returned")

C22_Witness ==
  /\ pc = "returned"
  /\ requested = Some(121)
  /\ args.max_results = 120
  /\ Len(fetched) = 6
  /\ IsSuccess(response)
  /\ response.result_count = 120

C22_NoFetches ==
  /\ pc = "returned"
  /\ requested = Some(-1)
  /\ fetched = <<>>
  /\ IsSuccess(response)
  /\ response.result_count = 0
  /\ response.results = <<>>

\* The element j is a candidate node of the k-th structural strategy.
StrategyMatch(doc, j, k) ==
  CASE k = 1 -> doc[j].tag = "li" /\ "cl-static-search-result" \in doc[j].cls
    [] k = 2 -> doc[j].tag = "div" /\ "result-row" \in doc[j].cls
    [] k = 3 -> doc[j].tag = "li" /\ "cl-search-result" \in doc[j].cls
    [] k = 4 -> "result-info" \in doc[j].cls

StrategyNodes(doc, k) ==
  SelectSeq(Indices(doc), LAMBDA j : StrategyMatch(doc, j, k))

\* The first strategy with a candidate node, 0 when there is none.
ChosenStrategy(doc) ==
  IF \E k \in 1..4 : StrategyNodes(doc, k) /= <<>>
    THEN CHOOSE k \in 1..4 :
           /\ StrategyNodes(doc, k) /= <<>>
           /\ \A m \in 1..(k - 1) : StrategyNodes(doc, m) = <<>>
    ELSE 0

\* The candidate nodes of the chosen strategy, in document order.
ChosenNodes(doc) ==
  IF ChosenStrategy(doc) = 0 THEN <<>> ELSE StrategyNodes(doc, ChosenStrategy(doc))

\* The links below the node n.
LinksBelow(doc, n) ==
  { j \in 1..Len(doc) : doc[j].tag = "a" /\ n \in AncestorsOf(doc, j) }

\* The url a record made from the link j carries.
LinkUrl(doc, j, location) ==
  IF IsNone(doc[j].attrs.href) \/ doc[j].attrs.href = Some("") THEN ""
  ELSE AnchorUrl(doc, j, location)

\* The chosen nodes that hold a link.
SurvivingNodes(doc) ==
  SelectSeq(ChosenNodes(doc), LAMBDA n : LinksBelow(doc, n) /= {})

SummaryKeys == {"url", "title", "price", "neighborhood", "date", "thumbnail"}

\* C14: _parse_search_results always returns a list of summaries; a
\* candidate node without a link is skipped alone: when some candidate node
\* holds a link, there is one summary per such node, in document order of
\* the nodes, each with the url of a link of its node.
C14_NodeSkippedAlone ==
  parse_called
    => LET surviving == SurvivingNodes(parse_doc) IN
       /\ \A i \in 1..Len(parse_results) : DOMAIN parse_results[i] = SummaryKeys
       /\ surviving /= <<>>
            => /\ Len(parse_results) = Len(surviving)
               /\ \A i \in 1..Len(surviving) :
                    \E j \in LinksBelow(parse_doc, surviving[i]) :
                      parse_results[i].url = LinkUrl(parse_doc, j, parse_location)

\* Three result rows, the first without a link: the two others give the
\* two summaries, in their order.
C14_Witness ==
  /\ parse_called
  /\ Len(ChosenNodes(parse_doc)) = 3
  /\ LinksBelow(parse_doc, ChosenNodes(parse_doc)[1]) = {}
  /\ Len(SurvivingNodes(parse_doc)) = 2
  /\ Len(parse_results) = 2
  /\ parse_results[1].title = "Desk Lamp"
  /\ parse_results[1].price = Some("$15")

\* C20: only the first strategy with a candidate node is used: when one of
\* its nodes holds a link, every summary comes from a node of that strategy;
\* when none does, the summaries are those of the link-pattern fallback
\* (one per first anchor with a text of 3 characters or more, with
\* neighborhood, date and thumbnail absent), whatever a later strategy
\* would have matched.
C20_FirstStrategyOnly ==
  parse_called
    => LET nodes == ChosenNodes(parse_doc)
           kept  == SelectSeq(FirstAnchors(parse_doc, parse_location),
                              LAMBDA j : Len(TextOf(parse_doc, j, TRUE)) >= 3)
       IN  IF SurvivingNodes(parse_doc) /= <<>>
             THEN /\ Len(parse_results) <= Len(nodes)
                  /\ \A i \in 1..Len(parse_results) :
                       \E k \in 1..Len(nodes) :
                         \E j \in LinksBelow(parse_doc, nodes[k]) :
                           parse_results[i].url = LinkUrl(parse_doc, j, parse_location)
             ELSE /\ Len(parse_results) = Len(kept)
                  /\ \A i \in 1..Len(kept) :
                       /\ parse_results[i].url = AnchorUrl(parse_doc, kept[i], parse_location)
                       /\ IsNone(parse_results[i].neighborhood)
                       /\ IsNone(parse_results[i].date)
                       /\ IsNone(parse_results[i].thumbnail)

\* A result row without a link and a gallery card: the second strategy is
\* chosen and gives nothing, and the card's link comes back as a fallback
\* record, without the date and the thumbnail the third strategy would find.
C20_Witness ==
  /\ parse_called
  /\ ChosenStrategy(parse_doc) = 2
  /\ SurvivingNodes(parse_doc) = <<>>
  /\ StrategyNodes(parse_doc, 3) /= <<>>
  /\ Len(parse_results) = 1
  /\ parse_results[1].title = "Oak Table"
  /\ IsNone(parse_results[1].date)
  /\ IsNone(parse_results[1].thumbnail)


\* ------------------------------------------------------------------------
\* Properties of the Detail Extractor
\* ------------------------------------------------------------------------

\* The key a label span stands for: its text lower-cased, without trailing
\* colons and surrounding whitespace.
LabelKey(span) == Lower(Strip(RStripSet(Strip(span.text), {":"})))

IsLabel(parts, i) == "labl" \in parts[i].cls

IsValue(parts, i) == "valu" \in parts[i].cls

\* The value span at i directly follows a label span, which takes it.
Consumed(parts, i) == i > 1 /\ IsValue(parts, i) /\ IsLabel(parts, i - 1)

\* What a span that is neither a label nor a consumed value records.
OtherWrite(span) ==
  IF "valu" \in span.cls
    THEN StandaloneValue(<<>>, span.cls, Strip(span.text))
    ELSE GenericSpan(<<>>, Strip(span.text))

\* What the span at i records, <<>> or <<<<key, value>>>>: a label with
\* the value span after it records the pair when neither text is empty, a
\* label without one records the empty string when its key is not empty,
\* and a consumed value span records nothing.
WriteAt(parts, i) ==
  IF IsLabel(parts, i)
    THEN IF i < Len(parts) /\ IsValue(parts, i + 1)
           THEN IF LabelKey(parts[i]) /= "" /\ Strip(parts[i + 1].text) /= ""
                  THEN << <<LabelKey(parts[i]), Strip(parts[i + 1].text)>> >>
                  ELSE <<>>
           ELSE IF LabelKey(parts[i]) /= ""
                  THEN << <<LabelKey(parts[i]), "">> >>
                  ELSE <<>>
  ELSE IF Consumed(parts, i) THEN <<>>
  ELSE OtherWrite(parts[i])

\* The same as the claim words it: the pair and the lone label are recorded
\* whatever their texts.
WriteAtAsStated(parts, i) ==
  IF IsLabel(parts, i)
    THEN IF i < Len(parts) /\ IsValue(parts, i + 1)
           THEN << <<LabelKey(parts[i]), Strip(parts[i + 1].text)>> >>
           ELSE << <<LabelKey(parts[i]), "">> >>
  ELSE IF Consumed(parts, i) THEN <<>>
  ELSE OtherWrite(parts[i])

\* attributes is the map of the writes, a later write to a key replacing an
\* earlier one, and is None when there is no write.
IsMapOfWrites(attributes, writes) ==
  LET written == { i \in 1..Len(writes) : writes[i] /= <<>> } IN
  IF written = {} THEN IsNone(attributes)
  ELSE /\ ~IsNone(attributes)
       /\ LET attrs == Val(attributes) IN
          /\ DictKeys(attrs) = { writes[i][1][1] : i \in written }
          /\ \A j, k \in 1..Len(attrs) : attrs[j][1] = attrs[k][1] => j = k
          /\ \A j \in 1..Len(attrs) :
               \E i \in written :
                 /\ writes[i][1] = attrs[j]
                 /\ \A l \in written : writes[l][1][1] = attrs[j][1] => l <= i

\* The call was on one attribute group of spans and has returned.
AttrGroupParsed ==
  /\ detail_called
  /\ detail_doc = AttrGroup(span_parts)
  /\ "attributes" \in DOMAIN detail_result

\* C11 (amended): over the spans of an attribute group, a label span
\* directly followed by a value span is recorded as key = lower-cased label
\* text without trailing colon and whitespace, value = the value span's
\* text, when neither is empty, and records nothing otherwise; both spans
\* are consumed either way, so the value span is never recorded under a
\* synthetic key; a label span not followed by a value span is recorded
\* with the empty string when its key is not empty.  The attributes are the
\* map of these records, a later one replacing an earlier one of its key.
C11_AttributePairing ==
  AttrGroupParsed =>
    IsMapOfWrites(detail_result.attributes,
                  [i \in 1..Len(span_parts) |-> WriteAt(span_parts, i)])

\* [labl "condition", valu "like new", valu(year) "2020"] has given
\* {condition: "like new", year: "2020"}.
C11_Witness ==
  /\ AttrGroupParsed
  /\ span_parts = << [cls |-> {"labl"}, text |-> "condition"],
                     [cls |-> {"valu"}, text |-> "like new"],
                     [cls |-> {"valu", "year"}, text |-> "2020"] >>
  /\ detail_result.attributes
       = Some(<< <<"condition", "like new">>, <<"year", "2020">> >>)

\* C11 as stated: every label span directly followed by a value span is
\* recorded with the value span's text, and every label span not followed
\* by one with the empty string.
C11_AsStated ==
  AttrGroupParsed =>
    IsMapOfWrites(detail_result.attributes,
                  [i \in 1..Len(span_parts) |-> WriteAtAsStated(span_parts, i)])


\* The element j is a thumbnail link or a gallery image.
IsImageElement(doc, j) ==
  \/ doc[j].tag = "a" /\ "thumb" \in doc[j].cls
  \/ doc[j].tag = "img" /\ (Below(doc, j, "gallery") \/ Below(doc, j, "swipe"))

\* The first of href, src and lazy-loaded src that is not empty.
SourceOf(e) ==
  IF Truthy(e.attrs.href) THEN e.attrs.href
  ELSE IF Truthy(e.attrs.src) THEN e.attrs.src
  ELSE e.attrs.data_src

\* The element j is a link inside the first element of id "thumbs".
IsThumbsLink(doc, j) ==
  /\ doc[j].tag = "a"
  /\ \E t \in AncestorsOf(doc, j) :
       /\ doc[t].attrs.id = Some("thumbs")
       /\ \A s \in 1..(t - 1) : doc[s].attrs.id /= Some("thumbs")

\* Every image source of the page: those of the thumbnail links and gallery
\* images in document order, then the hrefs of the thumbnails container.
AllSources(doc) ==
  LET first == SelectSeq(Indices(doc),
                         LAMBDA j : IsImageElement(doc, j) /\ Truthy(SourceOf(doc[j])))
      more  == SelectSeq(Indices(doc),
                         LAMBDA j : IsThumbsLink(doc, j) /\ Truthy(doc[j].attrs.href))
  IN  [k \in 1..Len(first) |-> Val(SourceOf(doc[first[k]]))]
        \o [k \in 1..Len(more) |-> Val(doc[more[k]].attrs.href)]

\* The index of the first occurrence of x in the sequence s.
FirstIndex(s, x) == CHOOSE i \in 1..Len(s) : s[i] = x /\ \A k \in 1..(i - 1) : s[k] /= x

\* images holds every string of sources once, each at the place of its
\* first occurrence.
IsFirstOccurrences(images, sources) ==
  /\ \A j, k \in 1..Len(images) : images[j] = images[k] => j = k
  /\ { images[j] : j \in 1..Len(images) } = { sources[i] : i \in 1..Len(sources) }
  /\ \A j, k \in 1..Len(images) :
       j < k => FirstIndex(sources, images[j]) < FirstIndex(sources, images[k])

\* C12: the images of a detail record hold no URL twice: the sources of the
\* thumbnail links and gallery images come first in document order, then
\* the hrefs of the thumbnails container not already there, each URL at the
\* place of its first occurrence; without any image source the field is
\* None, not an empty list.
C12_ImagesDeduplicated ==
  (detail_called /\ "images" \in DOMAIN detail_result) =>
    IF AllSources(detail_doc) = <<>>
      THEN IsNone(detail_result.images)
      ELSE /\ ~IsNone(detail_result.images)
           /\ IsFirstOccurrences(Val(detail_result.images), AllSources(detail_doc))

\* A page whose gallery and thumbnails container name three images five
\* times has given the three, in the order met.
C12_Witness ==
  /\ detail_called
  /\ "images" \in DOMAIN detail_result
  /\ Len(AllSources(detail_doc)) = 5
  /\ detail_result.images
       = Some(<< "https://images.craigslist.org/a_600x450.jpg",
                 "https://images.craigslist.org/b_600x450.jpg",
                 "https://images.craigslist.org/c_600x450.jpg" >>)

\* The listing page named no image and the record holds None.
C12_NoImages ==
  /\ detail_called
  /\ "images" \in DOMAIN detail_result
  /\ detail_doc /= <<>>
  /\ IsNone(detail_result.images)

\* The extractor returned a record.
IsDetailRecord(r) == "url" \in DOMAIN r /\ "title" \in DOMAIN r

\* C13 as stated: the Detail Extractor never raises, whatever the markup: a
\* map element whose latitude or longitude is there but is no number still
\* gives a record, with neither latitude nor longitude set, and every record
\* has both or neither.
C13_NeverRaises ==
  detail_called =>
    /\ IsDetailRecord(detail_result)
    /\ ("latitude" \in DOMAIN detail_result) <=> ("longitude" \in DOMAIN detail_result)

\* What does hold: a record returned has latitude and longitude together,
\* as the numbers the attributes spell, or has neither.
C13_BothOrNeither ==
  (detail_called /\ IsDetailRecord(detail_result)) =>
    ("latitude" \in DOMAIN detail_result) <=> ("longitude" \in DOMAIN detail_result)

\* The call on a map element of latitude "N/A" has ended in ValueError.
C13_Raised ==
  /\ detail_called
  /\ detail_result = ValueError
  /\ \E j \in 1..Len(detail_doc) : detail_doc[j].attrs.data_latitude = Some("N/A")


\* The attribute groups of the page, and the spans of one, in document
\* order.
GroupsOf(doc) == SelectSeq(Indices(doc), LAMBDA g : "attrgroup" \in doc[g].cls)

SpansOf(doc, g) ==
  SelectSeq(Indices(doc), LAMBDA j : doc[j].tag = "span" /\ doc[j].parent = g)

PartsOf(doc, g) ==
  [k \in 1..Len(SpansOf(doc, g)) |->
     [cls |-> doc[SpansOf(doc, g)[k]].cls, text |-> doc[SpansOf(doc, g)[k]].text]]

\* The groups of the page are top-level elements that hold spans of text
\* and nothing else.
GroupsAreFlat(doc) ==
  /\ \A g \in 1..Len(doc) : "attrgroup" \in doc[g].cls => doc[g].parent = 0
  /\ \A j \in 1..Len(doc) :
       "attrgroup" \notin doc[j].cls
         => /\ doc[j].tag = "span"
            /\ doc[j].parent /= 0
            /\ "attrgroup" \in doc[doc[j].parent].cls

\* The span at i is a value span that no label before it takes.
IsStandaloneValue(parts, i) ==
  IsValue(parts, i) /\ ~IsLabel(parts, i) /\ ~Consumed(parts, i)

\* What a standalone value span records: its text under "year" with the
\* year marker, else under "make/model" with the make/model marker, else
\* "yes" under its lower-cased text; nothing when it has no text.
SyntheticWrite(span) ==
  IF Strip(span.text) = "" THEN <<>>
  ELSE IF "year" \in span.cls THEN << <<"year", Strip(span.text)>> >>
  ELSE IF "makemodel" \in span.cls THEN << <<"make/model", Strip(span.text)>> >>
  ELSE << <<Lower(Strip(span.text)), "yes">> >>

\* The same as the claim words it: recorded whatever its text.
SyntheticWriteAsStated(span) ==
  IF "year" \in span.cls THEN << <<"year", Strip(span.text)>> >>
  ELSE IF "makemodel" \in span.cls THEN << <<"make/model", Strip(span.text)>> >>
  ELSE << <<Lower(Strip(span.text)), "yes">> >>

\* What each span of a group records, in order.
GroupWrites(parts) ==
  [i \in 1..Len(parts) |->
     IF IsStandaloneValue(parts, i) THEN SyntheticWrite(parts[i]) ELSE WriteAt(parts, i)]

GroupWritesAsStated(parts) ==
  [i \in 1..Len(parts) |->
     IF IsStandaloneValue(parts, i) THEN SyntheticWriteAsStated(parts[i])
     ELSE WriteAt(parts, i)]

RECURSIVE PageWrites(_, _)
\* What the spans of the groups record, group after group.
PageWrites(doc, groups) ==
  IF groups = <<>> THEN <<>>
  ELSE GroupWrites(PartsOf(doc, groups[1])) \o PageWrites(doc, Tail(groups))

RECURSIVE PageWritesAsStated(_, _)
PageWritesAsStated(doc, groups) ==
  IF groups = <<>> THEN <<>>
  ELSE GroupWritesAsStated(PartsOf(doc, groups[1]))
         \o PageWritesAsStated(doc, Tail(groups))

\* The call was on a page of flat attribute groups and has returned.
GroupsParsed ==
  /\ detail_called
  /\ "attributes" \in DOMAIN detail_result
  /\ GroupsOf(detail_doc) /= <<>>
  /\ GroupsAreFlat(detail_doc)

\* C21 (amended): a value span that no preceding label consumed and that has
\* text is recorded under a synthetic key: "year" if it carries the year
\* marker class, otherwise "make/model" if it carries the make/model marker
\* class, otherwise its own lower-cased text with the value "yes"; one
\* without text records nothing.  Across all groups a later record of a key
\* replaces the earlier one, and the attributes are None, not an empty map,
\* when nothing is recorded.
C21_StandaloneValues ==
  GroupsParsed =>
    IsMapOfWrites(detail_result.attributes,
                  PageWrites(detail_doc, GroupsOf(detail_doc)))

\* The year of the first group was replaced by the value span of the second,
\* which carries both markers, and the note of the second is recorded too.
C21_Witness ==
  /\ GroupsParsed
  /\ Len(GroupsOf(detail_doc)) = 2
  /\ PartsOf(detail_doc, 1) = << [cls |-> {"valu", "year"}, text |-> "2020"] >>
  /\ detail_result.attributes
       = Some(<< <<"year", "2019 Honda">>, <<"odometer broken", "yes">> >>)

\* Two groups without a span that records anything give None.
C21_NoAttributes ==
  /\ GroupsParsed
  /\ Len(detail_doc) = 3
  /\ IsNone(detail_result.attributes)

\* C21 as stated: every standalone value span is recorded under its
\* synthetic key.
C21_AsStated ==
  GroupsParsed =>
    IsMapOfWrites(detail_result.attributes,
                  PageWritesAsStated(detail_doc, GroupsOf(detail_doc)))

\* ------------------------------------------------------------------------
\* Properties of the reference tools
\* ------------------------------------------------------------------------

\* The display name a sorts before b: it is a proper prefix of it, or has the
\* smaller character where they first differ.
NameBefore(a, b) ==
  \/ Len(a) < Len(b) /\ SubSeq(b, 1, Len(a)) = a
  \/ \E k \in 1..Min(Len(a), Len(b)) :
       /\ SubSeq(a, 1, k - 1) = SubSeq(b, 1, k - 1)
       /\ Ord(Char(a, k)) < Ord(Char(b, k))

\* The lower-cased filter text, "" (which every string contains) when no
\* filter is given.
FilterNeedle(filter_text) ==
  IF IsNone(filter_text) THEN "" ELSE Lower(Val(filter_text))

\* The table entries whose code or lower-cased display name contains the
\* lower-cased filter text.
MatchingLocations(filter_text) ==
  { LOCATIONS[i] : i \in { k \in 1..Len(LOCATIONS) :
       \/ Contains(FilterNeedle(filter_text), LOCATIONS[k].code)
       \/ Contains(FilterNeedle(filter_text), Lower(LOCATIONS[k].name)) } }

\* list_locations has returned.
LocationsListed == tool = "list_locations" /\ tool_pc = "returned"

CategoriesListed == tool = "list_categories" /\ tool_pc = "returned"

\* C16: whatever calls of search, get_listing, list_locations and
\* list_categories came before, list_categories returns what its first call
\* returned: the entries of the category table in declaration order, with
\* their number as total; and no operation changes the table.
C16_ListCategoriesIdempotent ==
  /\ category_table = CATEGORIES
  /\ CategoriesListed =>
       /\ tool_response = Val(first_categories)
       /\ tool_response.total = Len(CATEGORIES)
       /\ tool_response.categories = CATEGORIES

\* list_categories has returned after an earlier call of it and calls of
\* the three other tools and of itself since.
C16_Witness ==
  /\ CategoriesListed
  /\ called_since
       = {"search_craigslist", "get_listing", "list_locations", "list_categories"}
  /\ tool_response.total = 57

=============================================================================
